---- MODULE Spec2Model ----
(***************************************************************************)
(* TRestRawSignalEvent: the container of the raw signals of one trigger.   *)
(* The event keeps a vector of signals (fSignal); signals are added,       *)
(* removed and charged, and aggregate getters fold over the vector.        *)
(*                                                                         *)
(* TRestRawSignalFitEventProcess: the process that fits the signals of an   *)
(* event to a pulse model and sets the observables of the fit.             *)
(*                                                                         *)
(* Indices are those of the C++ code (0-based); At(v, i) reads v[i].       *)
(* A Double_t that results from a division is kept as an exact fraction    *)
(* [num, den]; a division 0.0/0 yields NaN as in IEEE-754 arithmetic.      *)
(***************************************************************************)
EXTENDS Integers, Sequences, FiniteSets, TLC

VARIABLES fSignal,        \* std::vector<TRestRawSignal> of the event
          fBaseLineRange, \* baseline range of the event (start, end)
          warning,        \* the warning the last call wrote to cout ("" if none)
          ret,            \* the last call: its name, its arguments and what it returned
          arrived,        \* history: IDs added with success and not removed since, oldest first
          nCharges,       \* number of AddChargeToSignal calls made so far
          fMinValue,      \* cached extremes of the event, set by SetMaxAndMin
          fMaxValue,
          fMinTime,
          fMaxTime,
          config,         \* members of the process read from its configuration
          trace,          \* the calls the last ProcessEvent made, in order
          returned,       \* what the last ProcessEvent returned ("" before any)
          fRawSignalEvent, \* member of the process: the event ProcessEvent works on
          worker          \* the ProcessEvent calls that run at the same time

\* the cached extremes of the event
extremes == <<fMinValue, fMaxValue, fMinTime, fMaxTime>>

\* the state of the process
process == <<config, trace, returned, fRawSignalEvent, worker>>

vars == <<fSignal, fBaseLineRange, warning, ret, arrived, nCharges, extremes, process>>

----------------------------------------------------------------------------
(* Bounds of the model and constants of the program *)

\* number of bins of a signal created by AddChargeToSignal
NBins == 512

\* value GetLowestWidth starts its minimum search with
LowInit == 10000000

\* AddChargeToSignal is called at most MaxCharges times
MaxCharges == 2

SignalIDs == {1, 2, 3}

\* bins charged by AddChargeToSignal: inside every signal of the model, as
\* IncreaseBinBy indexes the samples without a test
ChargeBins == {0, NBins - 1}

ChargeValues == {2}

PeakAmplitudes == {3, 5}

\* numbers of signals GetLowAverageWidth is asked to average over
LowCounts == {1, 2}

BaseLineRanges == {<<0, 0>>, <<100, 102>>}

\* indices an uninitialized Int_t may hold
GarbageIndex == {-1, 1}

----------------------------------------------------------------------------
(* Signals *)
(* A signal holds nPoints samples, bins 0 .. nPoints-1.  fSignalData keeps  *)
(* the samples that are not zero, as a function bin -> value; every other  *)
(* bin of the signal holds 0.                                              *)

\* a pulse of three bins starting at bin `at`, zero elsewhere
Pulse(at, a, b, c) == (at :> a) @@ (at + 1 :> b) @@ (at + 2 :> c)

\* the samples (NBins of them) of the signals the callers of AddSignal hand in,
\* by signal ID: two equal pulses in the middle of the signal and a peak of
\* one bin near its start
Waveforms == (1 :> Pulse(100, 3, 4, 3)) @@ (2 :> (10 :> 6)) @@ (3 :> Pulse(100, 3, 4, 3))

\* TRestRawSignal sgnl(nBins): nBins samples, all zero
NewSignal(nBins) ==
    [fSignalID |-> -1, nPoints |-> nBins, fSignalData |-> <<>>,
     fBaseLine |-> <<0, 1>>, fBaseLineSigma |-> <<0, 1>>, fRange |-> <<0, 0>>,
     fPointsOverThreshold |-> <<>>]

SetSignalID(s, sID) == [s EXCEPT !.fSignalID = sID]

SetRange(s, range) == [s EXCEPT !.fRange = range]

GetNumberOfPoints(s) == s.nPoints

GetData(s, bin) == IF bin \in DOMAIN s.fSignalData THEN s.fSignalData[bin] ELSE 0

\* fSignalData[bin] += value
IncreaseBinBy(s, bin, value) ==
    LET new == GetData(s, bin) + value
        bins == IF new = 0 THEN DOMAIN s.fSignalData \ {bin}
                ELSE DOMAIN s.fSignalData \cup {bin}
    IN [s EXCEPT !.fSignalData =
                     [b \in bins |-> IF b = bin THEN new ELSE s.fSignalData[b]]]

\* sum of f over the bins of S
RECURSIVE SumOver(_, _)
SumOver(S, f) ==
    IF S = {} THEN 0
    ELSE LET b == CHOOSE x \in S : TRUE
         IN f[b] + SumOver(S \ {b}, f)

\* sum of the samples of the bins from .. to-1
SumRange(s, from, to) ==
    SumOver({b \in DOMAIN s.fSignalData : from <= b /\ b < to}, s.fSignalData)

\* sum of the squares of the samples of the bins from .. to-1
SumSqRange(s, from, to) ==
    SumOver({b \in DOMAIN s.fSignalData : from <= b /\ b < to},
            [b \in DOMAIN s.fSignalData |-> s.fSignalData[b] * s.fSignalData[b]])

\* largest r with r * r <= n
RECURSIVE ISqrtFrom(_, _)
ISqrtFrom(n, r) == IF (r + 1) * (r + 1) > n THEN r ELSE ISqrtFrom(n, r + 1)

ISqrt(n) == ISqrtFrom(n, 0)

\* mean and standard deviation of the samples in [startBin, endBin);
\* zero for an empty or out-of-bounds range
CalculateBaseLine(s, startBin, endBin) ==
    IF endBin - startBin <= 0 \/ startBin < 0 \/ endBin > GetNumberOfPoints(s)
    THEN [s EXCEPT !.fBaseLine = <<0, 1>>, !.fBaseLineSigma = <<0, 1>>]
    ELSE LET n  == endBin - startBin
             sm == SumRange(s, startBin, endBin)
             sq == SumSqRange(s, startBin, endBin)
         IN [s EXCEPT !.fBaseLine = <<sm, n>>,
                      !.fBaseLineSigma = <<ISqrt(n * sq - sm * sm), n>>]

\* TRestRawSignal::GetIntegral: the sum of the samples
SignalIntegral(s) == SumRange(s, 0, GetNumberOfPoints(s))

\* the bins that can hold the maximum: the non-zero ones and the first zero one
PeakCandidates(s) ==
    LET nz == DOMAIN s.fSignalData
        zeros == {b \in 0..Cardinality(nz) : b \notin nz /\ b < GetNumberOfPoints(s)}
    IN nz \cup (IF zeros = {} THEN {} ELSE {CHOOSE b \in zeros : \A c \in zeros : b <= c})

\* index of the maximum sample, the first one when several are equal
GetMaxPeakBin(s) ==
    LET C == PeakCandidates(s)
    IN CHOOSE b \in C :
           \A c \in C : \/ GetData(s, c) < GetData(s, b)
                        \/ (GetData(s, c) = GetData(s, b) /\ b <= c)

GetMaxPeakValue(s) == GetData(s, GetMaxPeakBin(s))

\* number of bins from `bin` on, in direction dir, that stay above half the peak
RECURSIVE HalfMaxRun(_, _, _, _)
HalfMaxRun(s, bin, dir, peak) ==
    IF bin < 0 \/ bin >= GetNumberOfPoints(s) THEN 0
    ELSE IF 2 * GetData(s, bin) > peak THEN 1 + HalfMaxRun(s, bin + dir, dir, peak)
    ELSE 0

\* full width of the maximum peak at half its height, in bins
GetMaxPeakWidth(s) ==
    LET m == GetMaxPeakBin(s)
        peak == GetData(s, m)
    IN IF peak <= 0 THEN 0
       ELSE HalfMaxRun(s, m, 1, peak) + HalfMaxRun(s, m - 1, -1, peak)

\* the bins of the set S, in increasing order
RECURSIVE SortedBins(_)
SortedBins(S) ==
    IF S = {} THEN <<>>
    ELSE LET b == CHOOSE x \in S : \A y \in S : x <= y
         IN <<b>> \o SortedBins(S \ {b})

\* sample(bin) - baseline > factor * baselineSigma, on exact fractions
OverThreshold(s, bin, factor) ==
    (GetData(s, bin) * s.fBaseLine[2] - s.fBaseLine[1]) * s.fBaseLineSigma[2]
        > factor * s.fBaseLineSigma[1] * s.fBaseLine[2]

\* the bins over the point threshold.  The samples, the baseline and the
\* thresholds of the model are not negative, so that a bin that holds 0 is
\* never over the threshold
BinsOverThreshold(s, pointThreshold) ==
    {b \in DOMAIN s.fSignalData : OverThreshold(s, b, pointThreshold)}

\* the run of contiguous bins of O that bin b belongs to
RunOf(O, b) ==
    {c \in O : \A x \in (IF c < b THEN c ELSE b)..(IF c < b THEN b ELSE c) : x \in O}

\* sum over the run of (sample - baseline) > signalThreshold * baselineSigma
RunOverSignalThreshold(s, run, signalThreshold) ==
    (SumOver(run, [b \in run |-> GetData(s, b) * s.fBaseLine[2] - s.fBaseLine[1]])
         * s.fBaseLineSigma[2])
        > signalThreshold * s.fBaseLineSigma[1] * s.fBaseLine[2]

\* the bins of the runs over the point threshold that are at least
\* nPointsOver long and whose sum is over the signal threshold, kept in
\* the signal in increasing order
InitializePointsOverThreshold(s, pointThreshold, signalThreshold, nPointsOver) ==
    LET O == BinsOverThreshold(s, pointThreshold)
        good == {b \in O : /\ Cardinality(RunOf(O, b)) >= nPointsOver
                            /\ RunOverSignalThreshold(s, RunOf(O, b), signalThreshold)}
    IN [s EXCEPT !.fPointsOverThreshold = SortedBins(good)]

GetPointsOverThreshold(s) == s.fPointsOverThreshold

\* the smallest sample of the signal
GetMinPeakValue(s) ==
    LET C == PeakCandidates(s)
    IN GetData(s, CHOOSE b \in C : \A c \in C : GetData(s, b) <= GetData(s, c))

----------------------------------------------------------------------------
(* Values returned by the getters *)

\* the Double_t h * 1E10 + l, with -1E10 < l < 1E10
E10(h, l) == <<h, l>>

\* a < b for two such values
Less(a, b) == a[1] < b[1] \/ (a[1] = b[1] /\ a[2] < b[2])

Num(n, d) == [kind |-> "num", num |-> n, den |-> d]

NaN == [kind |-> "nan", num |-> 0, den |-> 0]

Inf == [kind |-> "inf", num |-> 0, den |-> 0]

Pointer(i) == [kind |-> "ptr", num |-> i, den |-> 1]

Nullptr == [kind |-> "null", num |-> 0, den |-> 1]

\* sum of two fractions <<num, den>>
FAdd(a, b) == <<a[1] * b[2] + b[1] * a[2], a[2] * b[2]>>

\* Double_t / Int_t: a zero divisor gives NaN for 0.0 and an infinity otherwise
FDiv(a, n) ==
    IF n = 0 THEN (IF a[1] = 0 THEN NaN ELSE Inf)
    ELSE IF n < 0 THEN Num(-a[1], a[2] * (-n))
    ELSE Num(a[1], a[2] * n)

\* the value record of the Double_t x = E10(h, l): a multiple of 1E10 is
\* kept as its factor
AsValue(x) == IF x[1] = 0 THEN Num(x[2], 1) ELSE [kind |-> "1E10", num |-> x[1], den |-> 1]

\* Double_t arithmetic on value records: fractions in lowest terms with a
\* positive denominator, the two infinities (num is the sign) and NaN
RECURSIVE Gcd(_, _)
Gcd(a, b) == IF b = 0 THEN a ELSE Gcd(b, a % b)

Abs(n) == IF n < 0 THEN -n ELSE n

Sign(n) == IF n < 0 THEN -1 ELSE IF n > 0 THEN 1 ELSE 0

Infinity(sign) == [kind |-> "inf", num |-> sign, den |-> 0]

Frac(n, d) ==
    LET g == Gcd(Abs(n), Abs(d))
    IN IF d < 0 THEN Num((-n) \div g, (-d) \div g) ELSE Num(n \div g, d \div g)

\* a + b
VAdd(a, b) ==
    IF a.kind = "nan" \/ b.kind = "nan" THEN NaN
    ELSE IF a.kind = "inf" THEN (IF b.kind = "inf" /\ b.num # a.num THEN NaN ELSE a)
    ELSE IF b.kind = "inf" THEN b
    ELSE Frac(a.num * b.den + b.num * a.den, a.den * b.den)

\* a * b
VMul(a, b) ==
    IF a.kind = "nan" \/ b.kind = "nan" THEN NaN
    ELSE IF a.kind = "inf" \/ b.kind = "inf"
    THEN (IF a.num = 0 \/ b.num = 0 THEN NaN ELSE Infinity(Sign(a.num) * Sign(b.num)))
    ELSE Frac(a.num * b.num, a.den * b.den)

VNeg(a) == IF a.kind = "nan" THEN NaN ELSE [a EXCEPT !.num = -a.num]

\* a - b
VSub(a, b) == VAdd(a, VNeg(b))

\* a / b: x / 0 is an infinity, 0 / 0 and inf / inf are NaN
VDiv(a, b) ==
    IF a.kind = "nan" \/ b.kind = "nan" THEN NaN
    ELSE IF a.kind = "inf"
    THEN (IF b.kind = "inf" THEN NaN
          ELSE Infinity(IF b.num < 0 THEN -a.num ELSE a.num))
    ELSE IF b.kind = "inf" THEN Num(0, 1)
    ELSE IF b.num = 0 THEN (IF a.num = 0 THEN NaN ELSE Infinity(Sign(a.num)))
    ELSE Frac(a.num * b.den, a.den * b.num)

\* a > b; a comparison with NaN is false
VGreater(a, b) ==
    /\ a.kind # "nan"
    /\ b.kind # "nan"
    /\ IF a.kind = "inf" THEN a.num > 0 /\ b # a
       ELSE IF b.kind = "inf" THEN b.num < 0
       ELSE a.num * b.den > b.num * a.den

\* TMath::Sqrt: the root of a fraction of two squares is a fraction, any
\* other root is kept as the root of its radicand
VSqrt(a) ==
    IF a.kind = "nan" THEN NaN
    ELSE IF a.kind = "inf" THEN (IF a.num > 0 THEN a ELSE NaN)
    ELSE IF a.num < 0 THEN NaN
    ELSE IF ISqrt(a.num) * ISqrt(a.num) = a.num /\ ISqrt(a.den) * ISqrt(a.den) = a.den
    THEN Num(ISqrt(a.num), ISqrt(a.den))
    ELSE [kind |-> "sqrt", num |-> a.num, den |-> a.den]

NoRet == [op |-> "", arg |-> 0, val |-> Num(0, 1)]

----------------------------------------------------------------------------
(* TRestRawSignalEvent *)

\* fRange of the event, handed to every signal added
EventRange == <<0, 0>>

At(v, i) == v[i + 1]

GetNumberOfSignals(v) == Len(v)

RECURSIVE GetSignalIndexLoop(_, _, _)
GetSignalIndexLoop(v, signalID, i) ==
    IF i >= GetNumberOfSignals(v) THEN -1
    ELSE IF At(v, i).fSignalID = signalID THEN i
    ELSE GetSignalIndexLoop(v, signalID, i + 1)

\* a search that starts at the second signal
GetSignalIndex_FromSecond(v, signalID) == GetSignalIndexLoop(v, signalID, 1)

GetSignalIndex(v, signalID) == GetSignalIndexLoop(v, signalID, 0)

signalIDExists(v, sID) == GetSignalIndex(v, sID) # -1

\* AddSignal without the test of the ID
AddSignal_Unchecked(v, range, s) ==
    [fSignal |-> Append(v, SetRange(CalculateBaseLine(s, range[1], range[2]),
                                    EventRange)),
     warning |-> ""]

\* AddSignal that puts the new signal first
AddSignal_Front(v, range, s) ==
    IF signalIDExists(v, s.fSignalID)
    THEN [fSignal |-> v, warning |-> "already exists"]
    ELSE [fSignal |-> <<SetRange(CalculateBaseLine(s, range[1], range[2]),
                                 EventRange)>> \o v,
          warning |-> ""]

\* the event after AddSignal(s) and the warning written
AddSignal(v, range, s) ==
    IF signalIDExists(v, s.fSignalID)
    THEN [fSignal |-> v, warning |-> "already exists"]
    ELSE [fSignal |-> Append(v, SetRange(CalculateBaseLine(s, range[1], range[2]),
                                         EventRange)),
          warning |-> ""]

\* v.pop_back() in the place of v.erase(v.begin() + index)
Erase_Last(v, index) == SubSeq(v, 1, Len(v) - 1)

\* v.erase(v.begin() + index)
Erase(v, index) ==
    [i \in 1..(Len(v) - 1) |-> IF i < index + 1 THEN v[i] ELSE v[i + 1]]

RemoveSignalWithId(v, sId) ==
    LET index == GetSignalIndex(v, sId)
    IN IF index = -1
       THEN [fSignal |-> v, warning |-> "does not exist"]
       ELSE [fSignal |-> Erase(v, index), warning |-> ""]

\* AddChargeToSignal that charges the first signal after it created one
AddChargeToSignal_First(v, range, sgnlID, bin, value) ==
    LET found == GetSignalIndex(v, sgnlID)
        sgnlIndex == IF found = -1 THEN 0 ELSE found
        added == IF found = -1
                 THEN AddSignal(v, range, SetSignalID(NewSignal(NBins), sgnlID))
                 ELSE [fSignal |-> v, warning |-> ""]
    IN [fSignal |-> [added.fSignal EXCEPT ![sgnlIndex + 1] = IncreaseBinBy(@, bin, value)],
        warning |-> added.warning]

AddChargeToSignal(v, range, sgnlID, bin, value) ==
    LET found == GetSignalIndex(v, sgnlID)
        sgnlIndex == IF found = -1 THEN GetNumberOfSignals(v) ELSE found
        added == IF found = -1
                 THEN AddSignal(v, range, SetSignalID(NewSignal(NBins), sgnlID))
                 ELSE [fSignal |-> v, warning |-> ""]
    IN [fSignal |-> [added.fSignal EXCEPT ![sgnlIndex + 1] = IncreaseBinBy(@, bin, value)],
        warning |-> added.warning]

RECURSIVE GetIntegralLoop(_, _, _)
GetIntegralLoop(v, i, sum) ==
    IF i >= GetNumberOfSignals(v) THEN sum
    ELSE GetIntegralLoop(v, i + 1, sum + SignalIntegral(At(v, i)))

\* a sum that starts at the second signal
GetIntegral_FromSecond(v) == GetIntegralLoop(v, 1, 0)

GetIntegral(v) == GetIntegralLoop(v, 0, 0)

\* the loop of GetMaxSignal; sId keeps the value it entered with until
\* a signal's integral exceeds max
RECURSIVE GetMaxSignalLoop(_, _, _, _)
GetMaxSignalLoop(v, i, max, sId) ==
    IF i >= GetNumberOfSignals(v) THEN sId
    ELSE LET integ == SignalIntegral(At(v, i))
         IN IF max < integ
            THEN GetMaxSignalLoop(v, i + 1, integ, i)
            ELSE GetMaxSignalLoop(v, i + 1, max, sId)

\* sId is declared without a value: `uninit` is what it happens to hold
GetMaxSignal(v, uninit) ==
    IF GetNumberOfSignals(v) <= 0 THEN Nullptr
    ELSE Pointer(GetMaxSignalLoop(v, 0, SignalIntegral(At(v, 0)), uninit))

RECURSIVE BaseLineSumLoop(_, _, _)
BaseLineSumLoop(v, sgnl, baseLineMean) ==
    IF sgnl >= GetNumberOfSignals(v) THEN baseLineMean
    ELSE BaseLineSumLoop(v, sgnl + 1, FAdd(baseLineMean, At(v, sgnl).fBaseLine))

GetBaseLineAverage(v) == FDiv(BaseLineSumLoop(v, 0, <<0, 1>>), GetNumberOfSignals(v))

RECURSIVE BaseLineSigmaSumLoop(_, _, _)
BaseLineSigmaSumLoop(v, sgnl, baseLineSigmaMean) ==
    IF sgnl >= GetNumberOfSignals(v) THEN baseLineSigmaMean
    ELSE BaseLineSigmaSumLoop(v, sgnl + 1,
                              FAdd(baseLineSigmaMean, At(v, sgnl).fBaseLineSigma))

GetBaseLineSigmaAverage(v) ==
    FDiv(BaseLineSigmaSumLoop(v, 0, <<0, 1>>), GetNumberOfSignals(v))

RECURSIVE GetLowestWidthLoop(_, _, _, _)
GetLowestWidthLoop(v, minPeakAmplitude, sgnl, low) ==
    IF sgnl >= GetNumberOfSignals(v) THEN low
    ELSE IF GetMaxPeakValue(At(v, sgnl)) > minPeakAmplitude
    THEN LET lW == GetMaxPeakWidth(At(v, sgnl))
         IN GetLowestWidthLoop(v, minPeakAmplitude, sgnl + 1, IF low > lW THEN lW ELSE low)
    ELSE GetLowestWidthLoop(v, minPeakAmplitude, sgnl + 1, low)

GetLowestWidth(v, minPeakAmplitude) ==
    Num(GetLowestWidthLoop(v, minPeakAmplitude, 0, LowInit), 1)

\* the loop of GetAverageWidth: <<avg, n>> after the last signal
RECURSIVE GetAverageWidthLoop(_, _, _, _, _)
GetAverageWidthLoop(v, minPeakAmplitude, sgnl, avg, n) ==
    IF sgnl >= GetNumberOfSignals(v) THEN <<avg, n>>
    ELSE IF GetMaxPeakValue(At(v, sgnl)) > minPeakAmplitude
    THEN GetAverageWidthLoop(v, minPeakAmplitude, sgnl + 1,
                             avg + GetMaxPeakWidth(At(v, sgnl)), n + 1)
    ELSE GetAverageWidthLoop(v, minPeakAmplitude, sgnl + 1, avg, n)

\* an average over all the signals of the event
GetAverageWidth_OverAll(v, minPeakAmplitude) ==
    LET r == GetAverageWidthLoop(v, minPeakAmplitude, 0, 0, 0)
    IN IF r[2] = 0 THEN Num(0, 1) ELSE FDiv(<<r[1], 1>>, GetNumberOfSignals(v))

GetAverageWidth(v, minPeakAmplitude) ==
    LET r == GetAverageWidthLoop(v, minPeakAmplitude, 0, 0, 0)
    IN IF r[2] = 0 THEN Num(0, 1) ELSE FDiv(<<r[1], 1>>, r[2])

\* the widths of the signals sgnl .. whose maximum peak is above the amplitude
RECURSIVE QualifyingWidths(_, _, _)
QualifyingWidths(v, minPeakAmplitude, sgnl) ==
    IF sgnl >= GetNumberOfSignals(v) THEN <<>>
    ELSE (IF GetMaxPeakValue(At(v, sgnl)) > minPeakAmplitude
          THEN <<GetMaxPeakWidth(At(v, sgnl))>> ELSE <<>>)
         \o QualifyingWidths(v, minPeakAmplitude, sgnl + 1)

\* avg += widths[n] for n from .. nMax-1
RECURSIVE SumWidths(_, _, _)
SumWidths(widths, n, nMax) ==
    IF n >= nMax THEN 0 ELSE At(widths, n) + SumWidths(widths, n + 1, nMax)

\* an average that divides by the number of widths summed
GetLowAverageWidth_ByCount(v, nSignals, minPeakAmplitude) ==
    LET widths == SortSeq(QualifyingWidths(v, minPeakAmplitude, 0), LAMBDA a, b : a < b)
        nMax == IF Len(widths) < nSignals THEN Len(widths) ELSE nSignals
    IN IF Len(widths) = 0 THEN Num(0, 1)
       ELSE FDiv(<<SumWidths(widths, 0, nMax), 1>>, nMax)

GetLowAverageWidth(v, nSignals, minPeakAmplitude) ==
    LET widths == SortSeq(QualifyingWidths(v, minPeakAmplitude, 0), LAMBDA a, b : a < b)
        nMax == IF Len(widths) < nSignals THEN Len(widths) ELSE nSignals
    IN IF Len(widths) = 0 THEN Num(0, 1)
       ELSE FDiv(<<SumWidths(widths, 0, nMax), 1>>, nSignals)

\* the loop of SetMaxAndMin: <<fMinValue, fMaxValue>> after the last signal
RECURSIVE SetMaxAndMinLoop(_, _, _, _)
SetMaxAndMinLoop(v, s, min, max) ==
    IF s >= GetNumberOfSignals(v) THEN <<min, max>>
    ELSE LET sMin == E10(0, GetMinPeakValue(At(v, s)))
             sMax == E10(0, GetMaxPeakValue(At(v, s)))
         IN SetMaxAndMinLoop(v, s + 1,
                             IF Less(sMin, min) THEN sMin ELSE min,
                             IF Less(max, sMax) THEN sMax ELSE max)

\* extremes that are computed once and kept: a cache that holds values is
\* not computed again
SetMaxAndMin_Kept(v, cached) ==
    IF cached.fMaxValue # E10(-1, 0) THEN cached
    ELSE LET r == SetMaxAndMinLoop(v, 0, E10(1, 0), E10(-1, 0))
         IN [fMinValue |-> r[1], fMaxValue |-> r[2], fMinTime |-> E10(0, 0),
             fMaxTime |-> IF GetNumberOfSignals(v) > 0
                          THEN E10(0, GetNumberOfPoints(At(v, 0))) ELSE E10(-1, 0)]

\* the cached extremes after SetMaxAndMin(); `cached` holds them before
SetMaxAndMin(v, cached) ==
    LET r == SetMaxAndMinLoop(v, 0, E10(1, 0), E10(-1, 0))
    IN [fMinValue |-> r[1], fMaxValue |-> r[2], fMinTime |-> E10(0, 0),
        fMaxTime |-> IF GetNumberOfSignals(v) > 0
                     THEN E10(0, GetNumberOfPoints(At(v, 0))) ELSE E10(-1, 0)]

----------------------------------------------------------------------------
(* TRestRawSignalFitEventProcess *)

\* no selection of good signals: every parameter of the selection is 0
NoSelection ==
    [fPointThreshold |-> 0, fSignalThreshold |-> 0, fPointsOverThreshold |-> 0,
     fBaseLineRange |-> <<0, 0>>]

\* no parameter of the fit is fixed and none has a configured initial value
NoParameters ==
    [fShapingFixed |-> 0, fStartPositionFixed |-> 0, fVarianceFixed |-> 0,
     fAmplitudeFixed |-> 0, fShapingInitialValue |-> 0,
     fStartPositionInitialValue |-> 0, fVarianceInitialValue |-> 0,
     fAmplitudeInitialValue |-> 0]

Configure(addAllPulses, agetFit, selection, parameters) ==
    [fAddAllPulses |-> addAllPulses, fAgetFit |-> agetFit,
     fPointThreshold |-> selection.fPointThreshold,
     fSignalThreshold |-> selection.fSignalThreshold,
     fPointsOverThreshold |-> selection.fPointsOverThreshold,
     fBaseLineRange |-> selection.fBaseLineRange,
     fShapingFixed |-> parameters.fShapingFixed,
     fStartPositionFixed |-> parameters.fStartPositionFixed,
     fVarianceFixed |-> parameters.fVarianceFixed,
     fAmplitudeFixed |-> parameters.fAmplitudeFixed,
     fShapingInitialValue |-> parameters.fShapingInitialValue,
     fStartPositionInitialValue |-> parameters.fStartPositionInitialValue,
     fVarianceInitialValue |-> parameters.fVarianceInitialValue,
     fAmplitudeInitialValue |-> parameters.fAmplitudeInitialValue]

DefaultConfig == Configure(FALSE, FALSE, NoSelection, NoParameters)

\* a selection that asks for runs of two bins over the baseline of bins 5, 6
RunsOfTwo ==
    [fPointThreshold |-> 1, fSignalThreshold |-> 1, fPointsOverThreshold |-> 2,
     fBaseLineRange |-> <<5, 7>>]

\* a selection that sets the baseline range and no threshold
BaseLineOnly ==
    [fPointThreshold |-> 0, fSignalThreshold |-> 0, fPointsOverThreshold |-> 0,
     fBaseLineRange |-> <<100, 102>>]

Selections == {NoSelection, RunsOfTwo, BaseLineOnly}

\* initial values for the four parameters, none of them fixed
InitialValues ==
    [NoParameters EXCEPT !.fShapingInitialValue = 40, !.fStartPositionInitialValue = 20,
                         !.fVarianceInitialValue = 2, !.fAmplitudeInitialValue = 5]

\* the four parameters fixed, with initial values configured as well
AllFixed ==
    [InitialValues EXCEPT !.fShapingFixed = 35, !.fStartPositionFixed = 30,
                          !.fVarianceFixed = 3, !.fAmplitudeFixed = 10]

ParameterSets == {NoParameters, InitialValues, AllFixed}

Configs ==
    {Configure(a, g, sel, par) :
         a \in BOOLEAN, g \in BOOLEAN, sel \in Selections, par \in ParameterSets}

\* the test of "fit all signals": no parameter of the selection is set
NoSelectionSet(cfg) ==
    /\ cfg.fPointThreshold = 0
    /\ cfg.fSignalThreshold = 0
    /\ cfg.fPointsOverThreshold = 0
    /\ cfg.fBaseLineRange[1] = 0
    /\ cfg.fBaseLineRange[2] = 0

\* bins before and after the maximum peak of the range of a fit
MinBinRange == 45

MaxBinRange == 70

\* bins before and after the maximum peak of the residual sum of the AGET fit
AgetMinBinRange == 145

AgetMaxBinRange == 165

\* number of bins of the sum of all pulses
AllPulsesBins == 512

\* what a fit leaves behind for one signal: the values of the parameters
\* that were free, the uncertainty of VarianceGauss, the distance between
\* histogram and function at every bin, and the chi-square
FitOutcome(shaping, start, variance, amplitude, error, residual, chisquare) ==
    [ShapingTime |-> shaping, StartPosition |-> start, VarianceGauss |-> variance,
     Amplitude |-> amplitude, ParError |-> error, Residual |-> residual,
     ChiSquare |-> chisquare]

\* the IDs a fit can be made for: the signals of the event and the new
\* signal of the sum of all pulses
FitIDs == SignalIDs \cup {NewSignal(0).fSignalID}

\* a minimizer whose results differ from signal to signal
SignalFit ==
    [id \in FitIDs |-> FitOutcome(30, 5, 2 * Abs(id), 7, Abs(id), Abs(id), 3)]

\* a minimizer that ends on a negative VarianceGauss and meets the samples
\* of signal 1 at every bin
ExactFit ==
    [id \in FitIDs |-> FitOutcome(31, 6, -3, 9, 2, IF id = 1 THEN 0 ELSE 4, 1)]

Fitters == {SignalFit, ExactFit}

\* m[k] = x on a std::map
MapPut(m, k, x) == [i \in DOMAIN m \cup {k} |-> IF i = k THEN x ELSE m[i]]

\* m[k] read from a std::map<int, Double_t>: a key without entry reads 0
MapGet(m, k) == IF k \in DOMAIN m THEN m[k] ELSE Num(0, 1)

\* a call that ProcessEvent makes
Call(call, name, id, from, to, points, value) ==
    [call |-> call, name |-> name, id |-> id, from |-> from, to |-> to,
     points |-> points, value |-> value]

\* h->Fit(f, "RMNQWW", "", MaxPeakBin - MinBinRange, MaxPeakBin + MaxBinRange)
\* on the histogram of the samples of s
FitCall(model, s, MaxPeakBin) ==
    Call("Fit", model, s.fSignalID, MaxPeakBin - MinBinRange, MaxPeakBin + MaxBinRange,
         GetNumberOfPoints(s), s.fSignalData)

\* h->GetBinContent(j) for j in from .. to-1 on the histogram of s
GetBinContentCall(s, from, to) ==
    Call("GetBinContent", "histo", s.fSignalID, from, to, GetNumberOfPoints(s), Num(0, 1))

\* singleSignal->GetData(i) for i in from .. to-1
GetDataCall(s, from, to) ==
    Call("GetData", "", s.fSignalID, from, to, GetNumberOfPoints(s), Num(0, 1))

SetObservableValue(name, value) == Call("SetObservableValue", name, 0, 0, 0, 0, value)

ApplyCutCall(cut) == Call("ApplyCut", "", 0, 0, 0, 0, cut)

\* a division of a sum of the event by a count or by a sum of weights
DivideCall(name, id, divisor) == Call("Divide", name, id, 0, 0, 0, divisor)

\* the parameters of the function of a fit
ParNames(model) ==
    IF model = "fit" THEN <<"ShapingTime", "StartPosition", "VarianceGauss", "Amplitude">>
    ELSE <<"ShapingTime", "StartPosition", "Amplitude">>

\* the value SetParameter is called with: the configured initial value, or
\* the default when it is 0
InitialParameter(cfg, model, par, singleSignal, MaxPeakBin) ==
    CASE par = "ShapingTime" ->
             IF cfg.fShapingInitialValue # 0 THEN cfg.fShapingInitialValue ELSE 32
      [] par = "StartPosition" ->
             IF cfg.fStartPositionInitialValue # 0
             THEN MaxPeakBin - cfg.fStartPositionInitialValue ELSE MaxPeakBin - 25
      [] par = "VarianceGauss" ->
             IF cfg.fVarianceInitialValue # 0 THEN cfg.fVarianceInitialValue ELSE 1
      [] par = "Amplitude" ->
             IF cfg.fAmplitudeInitialValue # 0
             THEN GetData(singleSignal, MaxPeakBin) * cfg.fAmplitudeInitialValue
             ELSE IF model = "fit" THEN GetData(singleSignal, MaxPeakBin) * 10
             ELSE GetData(singleSignal, MaxPeakBin)

\* f->SetParameter(k, ...) for every parameter of the function
ReadInitialParameters(cfg, model, singleSignal, MaxPeakBin) ==
    [k \in 1..Len(ParNames(model)) |->
        Call("SetParameter", ParNames(model)[k], singleSignal.fSignalID, 0, 0, 0,
             Num(InitialParameter(cfg, model, ParNames(model)[k], singleSignal, MaxPeakBin),
                 1))]

\* the configured value that fixes a parameter; 0 leaves it free
FixedOption(cfg, par) ==
    CASE par = "ShapingTime" -> cfg.fShapingFixed
      [] par = "StartPosition" -> cfg.fStartPositionFixed
      [] par = "VarianceGauss" -> cfg.fVarianceFixed
      [] par = "Amplitude" -> cfg.fAmplitudeFixed

\* the value FixParameter is called with
FixedParameter(cfg, par, singleSignal, MaxPeakBin) ==
    CASE par = "ShapingTime" -> cfg.fShapingFixed
      [] par = "StartPosition" -> MaxPeakBin - cfg.fStartPositionFixed
      [] par = "VarianceGauss" -> cfg.fVarianceFixed
      [] par = "Amplitude" -> GetData(singleSignal, MaxPeakBin) * cfg.fAmplitudeFixed

\* parameters that are fixed whatever the configuration says
ReadFixedParameters_Always(cfg, model, singleSignal, MaxPeakBin) ==
    [k \in 1..Len(ParNames(model)) |->
        Call("FixParameter", ParNames(model)[k], singleSignal.fSignalID, 0, 0, 0,
             Num(FixedParameter(cfg, ParNames(model)[k], singleSignal, MaxPeakBin), 1))]

\* f->FixParameter(k, ...) for every parameter whose *Fixed option is not 0
ReadFixedParameters(cfg, model, singleSignal, MaxPeakBin) ==
    SelectSeq([k \in 1..Len(ParNames(model)) |->
                  Call("FixParameter", ParNames(model)[k], singleSignal.fSignalID, 0, 0, 0,
                       Num(FixedParameter(cfg, ParNames(model)[k], singleSignal,
                                          MaxPeakBin), 1))],
              LAMBDA c : FixedOption(cfg, c.name) # 0)

\* the positions in calls where parameter par got a value
ValuesOf(calls, par) == {i \in DOMAIN calls : calls[i].name = par}

IsFixed(calls, par) ==
    \E i \in ValuesOf(calls, par) : calls[i].call = "FixParameter"

\* f->GetParameter(par) after the fit: a fixed parameter keeps the value it
\* was given last, a free one has the value the minimizer ended on
GetParameter(calls, par, outcome) ==
    IF IsFixed(calls, par)
    THEN calls[CHOOSE i \in ValuesOf(calls, par) :
                   \A j \in ValuesOf(calls, par) : j <= i].value
    ELSE Num(outcome[par], 1)

\* f->GetParError(2) after the fit: 0 for a fixed parameter
GetParError(calls, par, outcome) ==
    IF IsFixed(calls, par) THEN Num(0, 1) ELSE Num(outcome.ParError, 1)

\* h->GetBinContent(bin): bin i + 1 of the histogram was filled with
\* GetRawData(i) - GetBaseLine()
GetBinContent(s, bin) ==
    VSub(Num(GetData(s, bin - 1), 1), Frac(s.fBaseLine[1], s.fBaseLine[2]))

\* sigma: the sum over from .. to-1 of the squared distance between
\* histogram and function
ResidualSum(outcome, from, to) == Num((to - from) * outcome.Residual * outcome.Residual, 1)

\* fit_conv->GetParError(2), the uncertainty of VarianceGauss
GetParErrorCall(id, error) == Call("GetParError", "VarianceGauss", id, 0, 0, 0, error)

\* sums of the variances in which every fit has the weight 1
AddVariance_Unweighted(st, variance, error) ==
    [st EXCEPT !.VGmean = VAdd(@, variance),
               !.VGvariance = VAdd(@, VMul(variance, variance)),
               !.VGweights = VAdd(@, Num(1, 1))]

\* VGmean, VGvariance and VGweights after one more fit: the weight of a fit
\* is 1 / GetParError(2)
AddVariance(st, variance, error) ==
    [st EXCEPT !.VGmean = VAdd(@, VDiv(variance, error)),
               !.VGvariance = VAdd(@, VDiv(VMul(variance, variance), error)),
               !.VGweights = VAdd(@, VDiv(Num(1, 1), error))]

\* the locals of ProcessEvent at its start, with the signals of the event;
\* fitter is what the fits of this call will end on
Locals(v, cfg, fitter) ==
    [fSignal |-> v, cfg |-> cfg, fitter |-> fitter, trace |-> <<>>,
     amplitudeFit |-> <<>>, shapingtimeFit |-> <<>>, StartPositionFit |-> <<>>,
     variancegaussFit |-> <<>>, ratiosigmaamplitudeFit |-> <<>>,
     Sigma |-> [k \in 1..GetNumberOfSignals(v) |-> Num(0, 1)],
     SigmaMean |-> Num(0, 1), RatioSigmaMaxPeakMean |-> Num(0, 1),
     ChiSquareMean |-> Num(0, 1), VGmean |-> Num(0, 1), VGvariance |-> Num(0, 1),
     VGweights |-> Num(0, 1), sigma |-> Num(0, 1), goodSig |-> 0]

\* the fit of signal number s of the event, the residual sum over the bins
\* MaxPeakBin - before .. MaxPeakBin + after - 1 and the results kept
FitSignal(st, s, singleSignal, model, before, after) ==
    LET id == singleSignal.fSignalID
        MaxPeakBin == GetMaxPeakBin(singleSignal)
        calls == ReadInitialParameters(st.cfg, model, singleSignal, MaxPeakBin)
                     \o ReadFixedParameters(st.cfg, model, singleSignal, MaxPeakBin)
        outcome == st.fitter[id]
        sigma == ResidualSum(outcome, MaxPeakBin - before, MaxPeakBin + after)
        Sigma_s == VSqrt(VDiv(sigma, Num(before + after, 1)))
        Ratio_s == VDiv(Sigma_s, GetBinContent(singleSignal, MaxPeakBin + 1))
        variance == GetParameter(calls, "VarianceGauss", outcome)
        error == GetParError(calls, "VarianceGauss", outcome)
        fit ==
        [st EXCEPT
           !.trace = @ \o calls
                       \o <<FitCall(model, singleSignal, MaxPeakBin),
                            GetBinContentCall(singleSignal, MaxPeakBin - before,
                                              MaxPeakBin + after),
                            DivideCall("sigma", id, Num(before + after, 1)),
                            GetBinContentCall(singleSignal, MaxPeakBin + 1,
                                              MaxPeakBin + 2)>>
                       \o (IF model = "fit" THEN <<GetParErrorCall(id, error)>> ELSE <<>>),
           !.Sigma = [@ EXCEPT ![s + 1] = Sigma_s],
           !.RatioSigmaMaxPeakMean = VAdd(@, Ratio_s),
           !.SigmaMean = VAdd(@, Sigma_s),
           !.ChiSquareMean = VAdd(@, Num(outcome.ChiSquare, 1)),
           !.amplitudeFit = MapPut(@, id, GetParameter(calls, "Amplitude", outcome)),
           !.shapingtimeFit = MapPut(@, id, GetParameter(calls, "ShapingTime", outcome)),
           !.StartPositionFit = MapPut(@, id, GetParameter(calls, "StartPosition", outcome)),
           !.variancegaussFit = IF model = "fit" THEN MapPut(@, id, variance) ELSE @,
           !.ratiosigmaamplitudeFit = MapPut(@, id, Ratio_s)]
    IN IF model = "fit" THEN AddVariance(fit, variance, error) ELSE fit

\* a fit of every signal that leaves out the first one
RECURSIVE FitAllSignals_FromSecond(_, _)
FitAllSignals_FromSecond(st, s) ==
    IF s >= GetNumberOfSignals(st.fSignal) THEN st
    ELSE LET singleSignal == CalculateBaseLine(At(st.fSignal, s), 20, 150)
             st1 == [st EXCEPT !.fSignal[s + 1] = singleSignal]
         IN FitAllSignals_FromSecond(
                IF s = 0 THEN st1
                ELSE FitSignal(st1, s, singleSignal, "fit", MinBinRange, MaxBinRange),
                s + 1)

\* fit all signals, from signal number s on
RECURSIVE FitAllSignals(_, _)
FitAllSignals(st, s) ==
    IF s >= GetNumberOfSignals(st.fSignal) THEN st
    ELSE LET singleSignal == CalculateBaseLine(At(st.fSignal, s), 20, 150)
             st1 == [st EXCEPT !.fSignal[s + 1] = singleSignal]
         IN FitAllSignals(FitSignal(st1, s, singleSignal, "fit", MinBinRange, MaxBinRange),
                          s + 1)

\* a signal that is not fit and gets no entry in the maps
SkipSignal_Omitted(st, id) == st

\* a signal that is not fit: -1 in the five maps
SkipSignal(st, id) ==
    [st EXCEPT !.amplitudeFit = MapPut(@, id, Num(-1, 1)),
               !.shapingtimeFit = MapPut(@, id, Num(-1, 1)),
               !.StartPositionFit = MapPut(@, id, Num(-1, 1)),
               !.variancegaussFit = MapPut(@, id, Num(-1, 1)),
               !.ratiosigmaamplitudeFit = MapPut(@, id, Num(-1, 1))]

\* a selection that takes a signal with one point over the threshold
RECURSIVE FitGoodSignals_FromOnePoint(_, _, _)
FitGoodSignals_FromOnePoint(st, s, cfg) ==
    IF s >= GetNumberOfSignals(st.fSignal) THEN st
    ELSE LET singleSignal ==
                 InitializePointsOverThreshold(
                     CalculateBaseLine(At(st.fSignal, s), cfg.fBaseLineRange[1],
                                       cfg.fBaseLineRange[2]),
                     cfg.fPointThreshold, cfg.fSignalThreshold, cfg.fPointsOverThreshold)
             st1 == [st EXCEPT !.fSignal[s + 1] = singleSignal]
         IN FitGoodSignals_FromOnePoint(
                IF Len(GetPointsOverThreshold(singleSignal)) >= 1
                THEN FitSignal([st1 EXCEPT !.goodSig = @ + 1], s, singleSignal, "fit",
                               MinBinRange, MaxBinRange)
                ELSE SkipSignal(st1, singleSignal.fSignalID),
                s + 1, cfg)

\* fit the good signals, from signal number s on
RECURSIVE FitGoodSignals(_, _, _)
FitGoodSignals(st, s, cfg) ==
    IF s >= GetNumberOfSignals(st.fSignal) THEN st
    ELSE LET singleSignal ==
                 InitializePointsOverThreshold(
                     CalculateBaseLine(At(st.fSignal, s), cfg.fBaseLineRange[1],
                                       cfg.fBaseLineRange[2]),
                     cfg.fPointThreshold, cfg.fSignalThreshold, cfg.fPointsOverThreshold)
             st1 == [st EXCEPT !.fSignal[s + 1] = singleSignal]
         IN FitGoodSignals(
                IF Len(GetPointsOverThreshold(singleSignal)) >= 2
                THEN FitSignal([st1 EXCEPT !.goodSig = @ + 1], s, singleSignal, "fit",
                               MinBinRange, MaxBinRange)
                ELSE SkipSignal(st1, singleSignal.fSignalID),
                s + 1, cfg)

\* fit all signals with the AGET function, from signal number s on
RECURSIVE FitAgetSignals(_, _)
FitAgetSignals(st, s) ==
    IF s >= GetNumberOfSignals(st.fSignal) THEN st
    ELSE LET singleSignal == CalculateBaseLine(At(st.fSignal, s), 20, 150)
             st1 == [st EXCEPT !.fSignal[s + 1] = singleSignal]
         IN FitAgetSignals(FitSignal(st1, s, singleSignal, "Aget", AgetMinBinRange,
                                     AgetMaxBinRange),
                           s + 1)

\* the largest value of variancegaussFit over the signals k .. of the event
\* that is above max
RECURSIVE MaxVarianceGauss(_, _, _)
MaxVarianceGauss(st, k, max) ==
    IF k >= GetNumberOfSignals(st.fSignal) THEN max
    ELSE LET x == MapGet(st.variancegaussFit, At(st.fSignal, k).fSignalID)
         IN MaxVarianceGauss(st, k + 1, IF VGreater(x, max) THEN x ELSE max)

\* sigmaMeanStdDev += (Sigma[k] - SigmaMean)^2 over the signals k .. of the
\* event; notZero leaves out the signals whose Sigma[k] is 0
RECURSIVE SumOfSquares(_, _, _, _)
SumOfSquares(st, k, SigmaMean, notZero) ==
    IF k >= GetNumberOfSignals(st.fSignal) THEN Num(0, 1)
    ELSE LET d == VSub(st.Sigma[k + 1], SigmaMean)
         IN VAdd(IF notZero /\ st.Sigma[k + 1] = Num(0, 1) THEN Num(0, 1) ELSE VMul(d, d),
                 SumOfSquares(st, k + 1, SigmaMean, notZero))

\* the divisions by the count n and the four observables that come of them
EventObservables(st, n, notZero) ==
    LET SigmaMean == VDiv(st.SigmaMean, Num(n, 1))
    IN <<DivideCall("SigmaMean", 0, Num(n, 1)),
         DivideCall("SigmaMeanStdDev", 0, Num(n, 1)),
         DivideCall("ChiSquareMean", 0, Num(n, 1)),
         DivideCall("RatioSigmaMaxPeakMean", 0, Num(n, 1)),
         SetObservableValue("FitSigmaMean", SigmaMean),
         SetObservableValue("FitSigmaStdDev",
                            VSqrt(VDiv(SumOfSquares(st, 0, SigmaMean, notZero), Num(n, 1)))),
         SetObservableValue("FitChiSquareMean", VDiv(st.ChiSquareMean, Num(n, 1))),
         SetObservableValue("FitRatioSigmaMaxPeakMean",
                            VDiv(st.RatioSigmaMaxPeakMean, Num(n, 1)))>>

\* the observables set after the fits with the convoluted function
ConvolutionObservables(st) ==
    <<SetObservableValue("FitAmplitude_map", st.amplitudeFit),
      SetObservableValue("FitShapingTime_map", st.shapingtimeFit),
      SetObservableValue("FitStartPosition_map", st.StartPositionFit),
      SetObservableValue("FitVarianceGauss_map", st.variancegaussFit),
      SetObservableValue("FitRatioSigmaMaxPeak_map", st.ratiosigmaamplitudeFit),
      SetObservableValue("FitMaxVarianceGauss", MaxVarianceGauss(st, 0, Num(0, 1)))>>
    \o (IF NoSelectionSet(st.cfg)
        THEN EventObservables(st, GetNumberOfSignals(st.fSignal), FALSE)
        ELSE EventObservables(st, st.goodSig, TRUE))
    \o <<DivideCall("VarianceGaussWMean", 0, st.VGweights),
         SetObservableValue("FitVarianceGaussWMean", VDiv(st.VGmean, st.VGweights)),
         DivideCall("VarianceGaussWStdDev", 0, st.VGweights),
         SetObservableValue("FitVarianceGaussWStdDev",
                            VSqrt(VSub(VDiv(st.VGvariance, st.VGweights),
                                       VMul(VDiv(st.VGmean, st.VGweights),
                                            VDiv(st.VGmean, st.VGweights)))))>>

\* the observables set after the fits with the AGET function
AgetObservables(st) ==
    LET n == GetNumberOfSignals(st.fSignal)
        SigmaMean == VDiv(st.SigmaMean, Num(n, 1))
    IN <<SetObservableValue("FitAmplitude_map", st.amplitudeFit),
         SetObservableValue("FitShapingTime_map", st.shapingtimeFit),
         SetObservableValue("FitStartPosition_map", st.StartPositionFit),
         SetObservableValue("FitRatioSigmaMaxPeak_map", st.ratiosigmaamplitudeFit),
         DivideCall("SigmaMean", 0, Num(n, 1)),
         SetObservableValue("FitSigmaMean", SigmaMean),
         DivideCall("SigmaMeanStdDev", 0, Num(n, 1)),
         SetObservableValue("FitSigmaStdDev",
                            VSqrt(VDiv(SumOfSquares(st, 0, SigmaMean, FALSE), Num(n, 1)))),
         DivideCall("ChiSquareMean", 0, Num(n, 1)),
         SetObservableValue("FitChiSquareMean", VDiv(st.ChiSquareMean, Num(n, 1))),
         DivideCall("RatioSigmaMaxPeakMean", 0, Num(n, 1)),
         SetObservableValue("FitRatioSigmaMaxPeakMean",
                            VDiv(st.RatioSigmaMaxPeakMean, Num(n, 1)))>>

\* the bins below AllPulsesBins that hold a sample that is not 0 in a signal
AllPulsesDomain(v) ==
    {b \in UNION {DOMAIN v[j].fSignalData : j \in 1..Len(v)} : b < AllPulsesBins}

\* a += singleSignal->GetData(i) over the signals j .. of the event
RECURSIVE AllPulsesBin(_, _, _)
AllPulsesBin(v, i, j) ==
    IF j >= GetNumberOfSignals(v) THEN 0
    ELSE GetData(At(v, j), i) + AllPulsesBin(v, i, j + 1)

\* a sum of all pulses that leaves out the first signal
AllPulses_FromSecond(v) ==
    LET a == [i \in AllPulsesDomain(v) |-> AllPulsesBin(v, i, 1)]
    IN [NewSignal(AllPulsesBins) EXCEPT
           !.fSignalData = [i \in {b \in DOMAIN a : a[b] # 0} |-> a[i]]]

\* allSig: AllPulsesBins points, point i the sum of GetData(i) over the
\* signals of the event; its ID is the one of a new signal
AllPulses(v) ==
    LET a == [i \in AllPulsesDomain(v) |-> AllPulsesBin(v, i, 0)]
    IN [NewSignal(AllPulsesBins) EXCEPT
           !.fSignalData = [i \in {b \in DOMAIN a : a[b] # 0} |-> a[i]]]

\* the reads of the sum of all pulses: GetData(0 .. AllPulsesBins-1) of
\* every signal
AllPulsesReads(v) == [j \in 1..Len(v) |-> GetDataCall(v[j], 0, AllPulsesBins)]

\* the fit of the signal allSig and the results kept; the map
\* ratiosigmaamplitudeFit gets no entry
FitSumOfPulses(st, allSig) ==
    LET id == allSig.fSignalID
        MaxPeakBin == GetMaxPeakBin(allSig)
        calls == ReadInitialParameters(st.cfg, "fit", allSig, MaxPeakBin)
                     \o ReadFixedParameters(st.cfg, "fit", allSig, MaxPeakBin)
        outcome == st.fitter[id]
        variance == GetParameter(calls, "VarianceGauss", outcome)
        error == GetParError(calls, "VarianceGauss", outcome)
    IN AddVariance(
        [st EXCEPT
           !.trace = @ \o AllPulsesReads(st.fSignal) \o calls
                       \o <<FitCall("fit", allSig, MaxPeakBin),
                            GetBinContentCall(allSig, MaxPeakBin - MinBinRange,
                                              MaxPeakBin + MaxBinRange),
                            GetParErrorCall(id, error)>>,
           !.sigma = ResidualSum(outcome, MaxPeakBin - MinBinRange, MaxPeakBin + MaxBinRange),
           !.amplitudeFit = MapPut(@, id, GetParameter(calls, "Amplitude", outcome)),
           !.shapingtimeFit = MapPut(@, id, GetParameter(calls, "ShapingTime", outcome)),
           !.StartPositionFit = MapPut(@, id, GetParameter(calls, "StartPosition", outcome)),
           !.variancegaussFit = MapPut(@, id, variance)],
        variance, error)

\* a fit of the sum of all pulses that hands the sum to the event
FitAllPulses_Added(st) ==
    LET allSig == CalculateBaseLine(AllPulses(st.fSignal), st.cfg.fBaseLineRange[1],
                                    st.cfg.fBaseLineRange[2])
    IN [FitSumOfPulses(st, allSig) EXCEPT !.fSignal = Append(@, allSig)]

\* allSig, the sum of all pulses, is built and fit; it stays a signal of
\* its own
FitAllPulses(st) ==
    FitSumOfPulses(st, CalculateBaseLine(AllPulses(st.fSignal), st.cfg.fBaseLineRange[1],
                                         st.cfg.fBaseLineRange[2]))

\* the observables set after the fit of the sum of all pulses; the last
\* read is h->GetBinContent(MaxPeakBin + 1)
AllPulsesObservables(st) ==
    LET allSig == CalculateBaseLine(AllPulses(st.fSignal), st.cfg.fBaseLineRange[1],
                                    st.cfg.fBaseLineRange[2])
        id == allSig.fSignalID
        MaxPeakBin == GetMaxPeakBin(allSig)
        calls == ReadInitialParameters(st.cfg, "fit", allSig, MaxPeakBin)
                     \o ReadFixedParameters(st.cfg, "fit", allSig, MaxPeakBin)
        outcome == st.fitter[id]
        n == GetNumberOfSignals(st.fSignal)
        Sigma_s == VSqrt(VDiv(st.sigma, Num(MinBinRange + MaxBinRange, 1)))
    IN <<SetObservableValue("FitAmplitude_map", st.amplitudeFit),
         SetObservableValue("FitShapingTime_map", st.shapingtimeFit),
         SetObservableValue("FitStartPosition_map", st.StartPositionFit),
         SetObservableValue("FitVarianceGauss_map", st.variancegaussFit),
         SetObservableValue("FitRatioSigmaMaxPeak_map", st.ratiosigmaamplitudeFit),
         SetObservableValue("FitMaxVarianceGauss", MapGet(st.variancegaussFit, id)),
         DivideCall("ChiSquareMean", 0, Num(n, 1)),
         DivideCall("RatioSigmaMaxPeakMean", 0, Num(n, 1)),
         DivideCall("sigma", id, Num(MinBinRange + MaxBinRange, 1)),
         SetObservableValue("FitSigmaMean", Sigma_s),
         SetObservableValue("FitChiSquareMean", Num(outcome.ChiSquare, 1)),
         GetBinContentCall(allSig, MaxPeakBin + 1, MaxPeakBin + 2),
         SetObservableValue("FitRatioSigmaMaxPeakMean",
                            VDiv(Sigma_s, GetBinContent(allSig, MaxPeakBin + 1))),
         SetObservableValue("FitVarianceGaussWMean",
                            GetParameter(calls, "VarianceGauss", outcome)),
         SetObservableValue("FitVarianceGaussWStdDev",
                            GetParError(calls, "VarianceGauss", outcome))>>

\* an end of ProcessEvent that returns the event whatever the cut says
Finish_EventAlways(st, range, observables, cut) ==
    [fSignal |-> st.fSignal, fBaseLineRange |-> range,
     trace |-> st.trace \o observables \o <<ApplyCutCall(cut)>>,
     returned |-> "evInput"]

\* the end of ProcessEvent: the observables are set, ApplyCut() is called
\* and its value decides between NULL and fRawSignalEvent, the event given
Finish(st, range, observables, cut) ==
    [fSignal |-> st.fSignal, fBaseLineRange |-> range,
     trace |-> st.trace \o observables \o <<ApplyCutCall(cut)>>,
     returned |-> IF cut THEN "NULL" ELSE "evInput"]

\* a ProcessEvent that tests fAgetFit before fAddAllPulses
ProcessEvent_AgetFirst(v, range, cfg, cut, fitter) ==
    IF cfg.fAgetFit = TRUE
    THEN LET st == FitAgetSignals(Locals(v, cfg, fitter), 0)
         IN Finish(st, range, AgetObservables(st), cut)
    ELSE IF cfg.fAddAllPulses = TRUE
    THEN LET st == FitAllPulses(Locals(v, cfg, fitter))
         IN Finish(st, range, AllPulsesObservables(st), cut)
    ELSE IF NoSelectionSet(cfg)
    THEN LET st == FitAllSignals(Locals(v, cfg, fitter), 0)
         IN Finish(st, range, ConvolutionObservables(st), cut)
    ELSE LET st == FitGoodSignals(Locals(v, cfg, fitter), 0, cfg)
         IN Finish(st, cfg.fBaseLineRange, ConvolutionObservables(st), cut)

\* ProcessEvent(evInput) on the event with signals v and baseline range
\* `range`, under the configuration cfg; cut is what ApplyCut() returns and
\* fitter what the fits end on
ProcessEvent(v, range, cfg, cut, fitter) ==
    IF cfg.fAddAllPulses = FALSE
    THEN IF cfg.fAgetFit = FALSE
         THEN IF NoSelectionSet(cfg)
              THEN LET st == FitAllSignals(Locals(v, cfg, fitter), 0)
                   IN Finish(st, range, ConvolutionObservables(st), cut)
              ELSE LET st == FitGoodSignals(Locals(v, cfg, fitter), 0, cfg)
                   IN Finish(st, cfg.fBaseLineRange, ConvolutionObservables(st), cut)
         ELSE LET st == FitAgetSignals(Locals(v, cfg, fitter), 0)
              IN Finish(st, range, AgetObservables(st), cut)
    ELSE LET st == FitAllPulses(Locals(v, cfg, fitter))
         IN Finish(st, range, AllPulsesObservables(st), cut)

----------------------------------------------------------------------------
(* Two ProcessEvent calls on one process at the same time *)

Workers == {1, 2}

\* the event each worker calls ProcessEvent with
EventOf == [w \in Workers |-> IF w = 1 THEN "event1" ELSE "event2"]

\* the IDs of the signals of the two events
SignalIDsOf(event) == IF event = "event1" THEN <<1>> ELSE <<2, 3>>

\* a worker before its call: where it is in ProcessEvent, the length of its
\* array Sigma, its loop counter s, the signals it has fit, the count its
\* sums were divided by and what it returned
NoWorker ==
    [w \in Workers |->
        [pc |-> "start", size |-> 0, s |-> 0, fits |-> <<>>, n |-> 0, out |-> ""]]

\* fRawSignalEvent = (TRestRawSignalEvent*)evInput
EnterProcessEvent(w) ==
    /\ worker[w].pc = "start"
    /\ fRawSignalEvent' = EventOf[w]
    /\ worker' = [worker EXCEPT ![w].pc = "locals"]

\* Double_t Sigma[fRawSignalEvent->GetNumberOfSignals()] = {}
DeclareLocals(w) ==
    /\ worker[w].pc = "locals"
    /\ worker' = [worker EXCEPT ![w].pc = "loop",
                                ![w].size = Len(SignalIDsOf(fRawSignalEvent))]
    /\ UNCHANGED fRawSignalEvent

\* one turn of for (s = 0; s < fRawSignalEvent->GetNumberOfSignals(); s++):
\* fRawSignalEvent->GetSignal(s) is fit and Sigma[s] is written; a write
\* past the end of Sigma goes unnoticed or ends the program
FitNextSignal(w) ==
    /\ worker[w].pc = "loop"
    /\ worker[w].s < Len(SignalIDsOf(fRawSignalEvent))
    /\ \/ worker' = [worker EXCEPT
                         ![w].fits = Append(@, SignalIDsOf(fRawSignalEvent)[worker[w].s + 1]),
                         ![w].s = @ + 1]
       \/ /\ worker[w].s >= worker[w].size
          /\ worker' = [worker EXCEPT ![w].pc = "crashed"]
    /\ UNCHANGED fRawSignalEvent

\* the loop is left and the sums are divided by
\* fRawSignalEvent->GetNumberOfSignals()
SetObservables(w) ==
    /\ worker[w].pc = "loop"
    /\ worker[w].s >= Len(SignalIDsOf(fRawSignalEvent))
    /\ worker' = [worker EXCEPT ![w].pc = "cut",
                                ![w].n = Len(SignalIDsOf(fRawSignalEvent))]
    /\ UNCHANGED fRawSignalEvent

\* if (ApplyCut()) return NULL; return fRawSignalEvent;
LeaveProcessEvent(w) ==
    /\ worker[w].pc = "cut"
    /\ \E cut \in BOOLEAN :
           worker' = [worker EXCEPT ![w].pc = "done",
                                    ![w].out = IF cut THEN "NULL" ELSE fRawSignalEvent]
    /\ UNCHANGED fRawSignalEvent

----------------------------------------------------------------------------
(* The calls *)

IDsOf(v) == [i \in 1..Len(v) |-> v[i].fSignalID]

\* the history after a call with ID id that turned the event v into w
Arrive(v, w, id) == IF Len(w) > Len(v) THEN Append(arrived, id) ELSE arrived

\* Initialize() clears fSignal and resets the cached extremes; the baseline
\* range is the one the event was configured with, which Initialize() leaves
\* alone
Initialize ==
    /\ fSignal = <<>>
    /\ fBaseLineRange \in BaseLineRanges
    /\ warning = ""
    /\ ret = NoRet
    /\ arrived = <<>>
    /\ nCharges = 0
    /\ fMinValue = E10(1, 0)
    /\ fMaxValue = E10(-1, 0)
    /\ fMinTime = E10(1, 0)
    /\ fMaxTime = E10(-1, 0)

\* an initialized event and a process with the default configuration that
\* has processed nothing
Init ==
    /\ Initialize
    /\ config = DefaultConfig
    /\ trace = <<>>
    /\ returned = ""
    /\ fRawSignalEvent = "NULL"
    /\ worker = NoWorker

\* a mutating call: the event and the warning it leaves
Mutate(op, r) ==
    /\ fSignal' = r.fSignal
    /\ warning' = r.warning
    /\ ret' = [op |-> op, arg |-> 0, val |-> Num(0, 1)]
    /\ UNCHANGED <<fBaseLineRange, extremes, process>>

\* a getter: it changes nothing and writes nothing
Return(op, arg, val) ==
    /\ ret' = [op |-> op, arg |-> arg, val |-> val]
    /\ warning' = ""
    /\ UNCHANGED <<fSignal, fBaseLineRange, arrived, nCharges, extremes, process>>

\* a getter of a cached extreme: SetMaxAndMin() computes the four of them
\* and the getter returns field f; arg keeps what the field held at the call
ReturnExtreme(op, f) ==
    LET cached == [fMinValue |-> fMinValue, fMaxValue |-> fMaxValue,
                   fMinTime |-> fMinTime, fMaxTime |-> fMaxTime]
        r == SetMaxAndMin(fSignal, cached)
    IN /\ fMinValue' = r.fMinValue
       /\ fMaxValue' = r.fMaxValue
       /\ fMinTime' = r.fMinTime
       /\ fMaxTime' = r.fMaxTime
       /\ ret' = [op |-> op, arg |-> AsValue(cached[f]), val |-> AsValue(r[f])]
       /\ warning' = ""
       /\ UNCHANGED <<fSignal, fBaseLineRange, arrived, nCharges, process>>

\* the signal with ID id that a caller hands to AddSignal
InputSignal(id) ==
    [NewSignal(NBins) EXCEPT !.fSignalID = id, !.fSignalData = Waveforms[id]]

CallAddSignal(id) ==
    LET r == AddSignal(fSignal, fBaseLineRange, InputSignal(id))
    IN /\ Mutate("AddSignal", r)
       /\ arrived' = Arrive(fSignal, r.fSignal, id)
       /\ UNCHANGED nCharges

CallRemoveSignalWithId(id) ==
    /\ Mutate("RemoveSignalWithId", RemoveSignalWithId(fSignal, id))
    /\ arrived' = SelectSeq(arrived, LAMBDA x : x # id)
    /\ UNCHANGED nCharges

CallAddChargeToSignal(id, bin, value) ==
    LET r == AddChargeToSignal(fSignal, fBaseLineRange, id, bin, value)
    IN /\ nCharges < MaxCharges
       /\ nCharges' = nCharges + 1
       /\ Mutate("AddChargeToSignal", r)
       /\ arrived' = Arrive(fSignal, r.fSignal, id)

DoAddSignal == \E id \in SignalIDs : CallAddSignal(id)

DoRemoveSignalWithId == \E id \in SignalIDs : CallRemoveSignalWithId(id)

DoAddChargeToSignal ==
    \E id \in SignalIDs, bin \in ChargeBins, value \in ChargeValues :
        CallAddChargeToSignal(id, bin, value)

DoGetIntegral == Return("GetIntegral", 0, Num(GetIntegral(fSignal), 1))

DoGetMaxSignal ==
    \E uninit \in GarbageIndex :
        Return("GetMaxSignal", 0, GetMaxSignal(fSignal, uninit))

DoGetBaseLineAverage == Return("GetBaseLineAverage", 0, GetBaseLineAverage(fSignal))

DoGetBaseLineSigmaAverage ==
    Return("GetBaseLineSigmaAverage", 0, GetBaseLineSigmaAverage(fSignal))

DoGetLowestWidth ==
    \E a \in PeakAmplitudes : Return("GetLowestWidth", a, GetLowestWidth(fSignal, a))

DoGetAverageWidth ==
    \E a \in PeakAmplitudes : Return("GetAverageWidth", a, GetAverageWidth(fSignal, a))

\* arg keeps the two arguments, <<nSignals, minPeakAmplitude>>
DoGetLowAverageWidth ==
    \E n \in LowCounts, a \in PeakAmplitudes :
        Return("GetLowAverageWidth", <<n, a>>, GetLowAverageWidth(fSignal, n, a))

\* ProcessEvent on the event; cut is the value of ApplyCut() and fitter
\* what the fits of the call end on
CallProcessEvent(cut, fitter) ==
    LET r == ProcessEvent(fSignal, fBaseLineRange, config, cut, fitter)
    IN /\ fSignal' = r.fSignal
       /\ fBaseLineRange' = r.fBaseLineRange
       /\ trace' = r.trace
       /\ returned' = r.returned
       /\ ret' = [op |-> "ProcessEvent", arg |-> 0, val |-> Num(0, 1)]
       /\ warning' = ""
       /\ fRawSignalEvent' = "evInput"
       /\ UNCHANGED <<arrived, nCharges, extremes, config, worker>>

DoProcessEvent == \E cut \in BOOLEAN, fitter \in Fitters : CallProcessEvent(cut, fitter)

DoGetMaxValue == ReturnExtreme("GetMaxValue", "fMaxValue")

DoGetMinValue == ReturnExtreme("GetMinValue", "fMinValue")

Next ==
    \/ DoAddSignal
    \/ DoRemoveSignalWithId
    \/ DoAddChargeToSignal
    \/ DoGetIntegral
    \/ DoGetMaxSignal
    \/ DoGetBaseLineAverage
    \/ DoGetBaseLineSigmaAverage
    \/ DoGetLowestWidth
    \/ DoGetAverageWidth

Spec == Init /\ [][Next]_vars

\* the event under the calls that change its signals and the getters of its
\* cached extremes
NextExtremes ==
    \/ DoAddSignal
    \/ DoRemoveSignalWithId
    \/ DoAddChargeToSignal
    \/ DoGetMaxValue
    \/ DoGetMinValue

SpecExtremes == Init /\ [][NextExtremes]_vars

\* the event under the calls that change its signals and GetLowAverageWidth
NextWidths ==
    \/ DoAddSignal
    \/ DoRemoveSignalWithId
    \/ DoAddChargeToSignal
    \/ DoGetLowAverageWidth

SpecWidths == Init /\ [][NextWidths]_vars

\* an initialized event and a process with one of the configurations
InitProcess ==
    /\ Initialize
    /\ config \in Configs
    /\ trace = <<>>
    /\ returned = ""
    /\ fRawSignalEvent = "NULL"
    /\ worker = NoWorker

\* a signal is added to an event that no process has seen yet
FillEvent == returned = "" /\ DoAddSignal

\* the event is given to the process, once
RunProcess == returned = "" /\ DoProcessEvent

\* the event is filled and then given to the process
NextProcess ==
    \/ FillEvent
    \/ RunProcess

SpecProcess == InitProcess /\ [][NextProcess]_vars

\* the events and the process object apart from fRawSignalEvent
sequential ==
    <<fSignal, fBaseLineRange, warning, ret, arrived, nCharges, extremes, config, trace,
      returned>>

DoEnterProcessEvent == \E w \in Workers : EnterProcessEvent(w) /\ UNCHANGED sequential

DoDeclareLocals == \E w \in Workers : DeclareLocals(w) /\ UNCHANGED sequential

DoFitNextSignal == \E w \in Workers : FitNextSignal(w) /\ UNCHANGED sequential

DoSetObservables == \E w \in Workers : SetObservables(w) /\ UNCHANGED sequential

DoLeaveProcessEvent == \E w \in Workers : LeaveProcessEvent(w) /\ UNCHANGED sequential

\* two workers call ProcessEvent of one process, each with its own event,
\* and their steps interleave
NextWorkers ==
    \/ DoEnterProcessEvent
    \/ DoDeclareLocals
    \/ DoFitNextSignal
    \/ DoSetObservables
    \/ DoLeaveProcessEvent

SpecWorkers == Init /\ [][NextWorkers]_vars

----------------------------------------------------------------------------
(* Properties of the event container *)

\* the positions (1-based) of the signals of the event that have ID id
Holders(id) == {i \in 1..Len(fSignal) : fSignal[i].fSignalID = id}

\* sum of f over the set S
RECURSIVE Sigma(_, _)
Sigma(S, f) ==
    IF S = {} THEN 0
    ELSE LET x == CHOOSE y \in S : TRUE
         IN f[x] + Sigma(S \ {x}, f)

\* the positions of the signals whose maximum peak is above the amplitude a
Qualifying(a) == {i \in 1..Len(fSignal) : GetMaxPeakValue(fSignal[i]) > a}

WidthOf == [i \in 1..Len(fSignal) |-> GetMaxPeakWidth(fSignal[i])]

IntegralOf == [i \in 1..Len(fSignal) |-> SignalIntegral(fSignal[i])]

\* C1: AddSignal(s) with an ID that a signal of the event already has leaves
\* the event as it is: the same signals, in the same order, with the same
\* IDs and samples.
C1_DuplicateAddChangesNothing ==
    [][\A id \in SignalIDs :
          (CallAddSignal(id) /\ Holders(id) # {}) => fSignal' = fSignal]_vars

C1_Witness ==
    /\ ret.op = "AddSignal"
    /\ warning = "already exists"
    /\ Len(fSignal) >= 2

\* C2: after any sequence of AddSignal, RemoveSignalWithId and
\* AddChargeToSignal calls on an initialized event, no two signals of the
\* event have the same ID.
C2_UniqueIDs ==
    \A i, j \in 1..Len(fSignal) :
        i # j => fSignal[i].fSignalID # fSignal[j].fSignalID

C2_Witness ==
    /\ Len(fSignal) = 3
    /\ nCharges = MaxCharges
    /\ warning = "already exists"

\* C3: RemoveSignalWithId(id) leaves the event as it is when no signal has
\* that ID; otherwise it removes the one signal with that ID and keeps every
\* other signal, in order.
C3_RemoveExactlyThatSignal ==
    [][\A id \in SignalIDs :
          CallRemoveSignalWithId(id) =>
              IF Holders(id) = {}
              THEN fSignal' = fSignal
              ELSE /\ Len(fSignal') = Len(fSignal) - 1
                   /\ fSignal' = SelectSeq(fSignal, LAMBDA s : s.fSignalID # id)]_vars

C3_Witness ==
    /\ ret.op = "RemoveSignalWithId"
    /\ warning = "does not exist"
    /\ Len(fSignal) = 2

\* the samples of signal t are those of signal s with value added to bin `bin`
ChargedBy(s, t, bin, value) ==
    /\ t.fSignalID = s.fSignalID
    /\ t.nPoints = s.nPoints
    /\ \A b \in DOMAIN s.fSignalData \cup DOMAIN t.fSignalData \cup {bin} :
           GetData(t, b) = GetData(s, b) + (IF b = bin THEN value ELSE 0)

\* C4: AddChargeToSignal(id, bin, value) appends one signal with that ID and
\* 512 zero bins when the event has none with that ID, and then adds value
\* to bin `bin` of the signal with that ID and to nothing else.
C4_ChargeAddsToThatBin ==
    [][\A id \in SignalIDs, bin \in ChargeBins, value \in ChargeValues :
          CallAddChargeToSignal(id, bin, value) =>
              IF Holders(id) = {}
              THEN /\ Len(fSignal') = Len(fSignal) + 1
                   /\ \A i \in 1..Len(fSignal) : fSignal'[i] = fSignal[i]
                   /\ LET new == fSignal'[Len(fSignal')]
                      IN /\ new.fSignalID = id
                         /\ new.nPoints = 512
                         /\ \A b \in DOMAIN new.fSignalData \cup {bin} :
                                GetData(new, b) = IF b = bin THEN value ELSE 0
              ELSE /\ Len(fSignal') = Len(fSignal)
                   /\ \A i \in 1..Len(fSignal) :
                          IF i \in Holders(id)
                          THEN ChargedBy(fSignal[i], fSignal'[i], bin, value)
                          ELSE fSignal'[i] = fSignal[i]]_vars

\* two calls with the same ID and bin have summed their values in a signal
\* that the first call created, beside another signal
C4_Witness ==
    /\ ret.op = "AddChargeToSignal"
    /\ Len(fSignal) >= 2
    /\ \E i \in 1..Len(fSignal) :
           /\ i > 1
           /\ fSignal[i].nPoints = NBins
           /\ fSignal[i].fSignalData = (NBins - 1 :> 4)

\* C5: the signals of the event are in arrival order: their IDs are the IDs
\* added with success, in the order they were added, without the removed
\* ones; they are never sorted by ID.
C5_ArrivalOrder == IDsOf(fSignal) = arrived

C5_Witness ==
    /\ ret.op = "RemoveSignalWithId"
    /\ warning = ""
    /\ IDsOf(fSignal) = <<3, 1>>

\* C6: GetIntegral() of the event is the sum of the integrals of the signals
\* the event holds, 0 for an empty event.
C6_IntegralIsSumOfSignals ==
    ret.op = "GetIntegral" =>
        ret.val = Num(Sigma(1..Len(fSignal), IntegralOf), 1)

C6_Witness ==
    /\ ret.op = "GetIntegral"
    /\ Len(fSignal) = 3
    /\ nCharges = MaxCharges
    /\ ret.val.num > 0

\* the value v is the number 0
IsZero(v) == v.kind = "num" /\ v.num = 0

\* C7: every getter of the event that divides by a count returns 0 on an
\* event without signals; GetBaseLineAverage() and GetBaseLineSigmaAverage()
\* do.
C7_EmptyEventAveragesAreZero ==
    (/\ fSignal = <<>>
     /\ ret.op \in {"GetBaseLineAverage", "GetBaseLineSigmaAverage", "GetAverageWidth"})
        => IsZero(ret.val)

\* the position of the first signal whose integral no other signal exceeds
FirstMaxIntegral ==
    CHOOSE i \in 1..Len(fSignal) :
        /\ \A j \in 1..Len(fSignal) : IntegralOf[j] <= IntegralOf[i]
        /\ \A j \in 1..(i - 1) : IntegralOf[j] < IntegralOf[i]

\* C8: GetMaxSignal() returns null for an event without signals, and else a
\* pointer to the first signal, in insertion order, that has the largest
\* integral.
C8_MaxSignalIsFirstLargest ==
    ret.op = "GetMaxSignal" =>
        IF fSignal = <<>> THEN ret.val = Nullptr
        ELSE ret.val = Pointer(FirstMaxIntegral - 1)

\* C9: GetLowestWidth(a) returns 0 when no signal has a maximum peak above
\* a, and else the smallest width of the signals that have one.
C9_LowestWidthOrZero ==
    ret.op = "GetLowestWidth" =>
        IF Qualifying(ret.arg) = {} THEN IsZero(ret.val)
        ELSE /\ ret.val.kind = "num"
             /\ ret.val.den = 1
             /\ \E i \in Qualifying(ret.arg) : WidthOf[i] = ret.val.num
             /\ \A i \in Qualifying(ret.arg) : WidthOf[i] >= ret.val.num

\* C10: GetAverageWidth(a) returns 0 when no signal has a maximum peak above
\* a, and else the sum of the widths of the signals that have one, divided
\* by their number.
C10_AverageWidth ==
    ret.op = "GetAverageWidth" =>
        LET Q == Qualifying(ret.arg)
        IN IF Q = {} THEN IsZero(ret.val)
           ELSE /\ ret.val.kind = "num"
                /\ ret.val.den > 0
                /\ ret.val.num * Cardinality(Q) = Sigma(Q, WidthOf) * ret.val.den

\* two of three signals qualify, with different widths
C10_Witness ==
    /\ ret.op = "GetAverageWidth"
    /\ Len(fSignal) = 3
    /\ Cardinality(Qualifying(ret.arg)) = 2
    /\ \E i, j \in Qualifying(ret.arg) : WidthOf[i] # WidthOf[j]

----------------------------------------------------------------------------
(* Properties of the cached extremes of the event *)

\* the largest sample of the signals of the event
MaxOverSignals ==
    CHOOSE m \in {GetMaxPeakValue(fSignal[i]) : i \in 1..Len(fSignal)} :
        \A i \in 1..Len(fSignal) : GetMaxPeakValue(fSignal[i]) <= m

\* the smallest sample of the signals of the event
MinOverSignals ==
    CHOOSE m \in {GetMinPeakValue(fSignal[i]) : i \in 1..Len(fSignal)} :
        \A i \in 1..Len(fSignal) : GetMinPeakValue(fSignal[i]) >= m

\* C11: the extremes of the event are never stale: after any sequence of
\* AddSignal, RemoveSignalWithId and AddChargeToSignal calls, GetMaxValue()
\* is the maximum of GetMaxValue() over the signals the event holds at the
\* call and GetMinValue() is the minimum of GetMinValue() over them, whatever
\* the cache held before.
C11_ExtremesAreFresh ==
    /\ (ret.op = "GetMaxValue" /\ fSignal # <<>>) => ret.val = Num(MaxOverSignals, 1)
    /\ (ret.op = "GetMinValue" /\ fSignal # <<>>) => ret.val = Num(MinOverSignals, 1)

\* GetMaxValue() returned a maximum smaller than the one the cache held from
\* a call made before a signal was removed
C11_Witness ==
    /\ ret.op = "GetMaxValue"
    /\ Len(fSignal) >= 1
    /\ ret.arg.kind = "num"
    /\ ret.val.kind = "num"
    /\ ret.val.num < ret.arg.num

----------------------------------------------------------------------------
(* Properties of ProcessEvent *)

\* the last call was ProcessEvent: trace and returned are those of a call on
\* the event as it is now
Processed == ret.op = "ProcessEvent"

\* fit all signals (A), fit the good signals (B), fit the sum of all pulses (C)
ModeA == config.fAddAllPulses = FALSE /\ NoSelectionSet(config)

ModeB ==
    config.fAddAllPulses = FALSE /\ config.fAgetFit = FALSE /\ ~NoSelectionSet(config)

ModeC == config.fAddAllPulses = TRUE

\* the positions in trace of the calls of one kind
CallsOf(call) == {i \in DOMAIN trace : trace[i].call = call}

\* the positions in trace of the fits of the signal with ID id
FitsOf(id) == {i \in CallsOf("Fit") : trace[i].id = id}

\* the positions in trace where the observable `name` is set
SetsOf(name) == {i \in CallsOf("SetObservableValue") : trace[i].name = name}

\* the value the observable `name` was set to
Observable(name) == trace[CHOOSE i \in SetsOf(name) : TRUE].value

\* the IDs of the signals of the event
EventIDs == {fSignal[i].fSignalID : i \in 1..Len(fSignal)}

FiveMaps ==
    {"FitAmplitude_map", "FitShapingTime_map", "FitStartPosition_map",
     "FitVarianceGauss_map", "FitRatioSigmaMaxPeak_map"}

\* the signal qualifies as a good signal: two points over the threshold
Good(s) == Len(s.fPointsOverThreshold) >= 2

\* C12: in Mode B a signal is fit if and only if its list of points over
\* the threshold has at least 2 entries; a signal that is not fit has -1 in
\* the five maps, and each of the five maps has exactly one entry for every
\* signal ID of the event.
C12_GoodSignalsAreFit ==
    (Processed /\ ModeB) =>
        /\ \A i \in 1..Len(fSignal) :
               /\ Good(fSignal[i]) <=> FitsOf(fSignal[i].fSignalID) # {}
               /\ ~Good(fSignal[i]) =>
                      \A m \in FiveMaps :
                          Observable(m)[fSignal[i].fSignalID] = Num(-1, 1)
        /\ \A m \in FiveMaps :
               /\ Cardinality(SetsOf(m)) = 1
               /\ DOMAIN Observable(m) = EventIDs

\* three signals of which some are fit and one is not
C12_Witness ==
    /\ Processed
    /\ ModeB
    /\ Len(fSignal) = 3
    /\ \E i, j \in 1..Len(fSignal) : Good(fSignal[i]) /\ ~Good(fSignal[j])
    /\ Cardinality(CallsOf("Fit")) = 2

\* C13: in Mode B, when no signal of the event qualifies, ProcessEvent runs
\* no fit, stores -1 for every signal in every per-signal map, runs to its
\* end (the observables are set and the cut is evaluated) and returns the
\* input event when the cut does not veto.
C13_NoGoodSignal ==
    (Processed /\ ModeB /\ \A i \in 1..Len(fSignal) : ~Good(fSignal[i])) =>
        /\ CallsOf("Fit") = {}
        /\ \A m \in FiveMaps :
               /\ SetsOf(m) # {}
               /\ DOMAIN Observable(m) = EventIDs
               /\ \A id \in EventIDs : Observable(m)[id] = Num(-1, 1)
        /\ CallsOf("ApplyCut") # {}
        /\ returned \in {"NULL", "evInput"}
        /\ (\A i \in CallsOf("ApplyCut") : trace[i].value = FALSE) => returned = "evInput"

\* two signals, none of them good, and the event is returned
C13_Witness ==
    /\ Processed
    /\ ModeB
    /\ Len(fSignal) = 2
    /\ \A i \in 1..Len(fSignal) : ~Good(fSignal[i])
    /\ returned = "evInput"
    /\ Observable("FitSigmaMean") = NaN

\* the maps that a call sets
EmittedMaps == {m \in FiveMaps : SetsOf(m) # {}}

\* C14: in Mode A every signal of the event is fit exactly once, with the
\* convolved model when agetFit is false and the response-only model when
\* agetFit is true, and each map that is set has exactly one entry per
\* signal ID, none of them the -1 of a signal that is not fit.
C14_AllSignalsAreFit ==
    (Processed /\ ModeA) =>
        /\ \A id \in EventIDs :
               /\ Cardinality(FitsOf(id)) = 1
               /\ \A i \in FitsOf(id) :
                      trace[i].name = IF config.fAgetFit THEN "Aget" ELSE "fit"
        /\ Cardinality(CallsOf("Fit")) = Len(fSignal)
        /\ EmittedMaps # {}
        /\ \A m \in EmittedMaps :
               /\ DOMAIN Observable(m) = EventIDs
               /\ \A id \in EventIDs : Observable(m)[id] # Num(-1, 1)

\* three signals fit with the convolved model
C14_Witness ==
    /\ Processed
    /\ ModeA
    /\ config.fAgetFit = FALSE
    /\ Len(fSignal) = 3
    /\ Cardinality(CallsOf("Fit")) = 3

\* the samples that the one fit of the call was made on
FittedSamples == trace[CHOOSE i \in CallsOf("Fit") : TRUE].value

\* the sample of bin b in sparse samples d
SampleOf(d, b) == IF b \in DOMAIN d THEN d[b] ELSE 0

\* the largest of the sparse samples d (0 when no sample is above 0)
PeakOf(d) ==
    IF \A b \in DOMAIN d : d[b] <= 0 THEN 0
    ELSE d[CHOOSE b \in DOMAIN d : \A c \in DOMAIN d : d[c] <= d[b]]

\* C15: in Mode C one signal is built whose bin i is the sum over the
\* signals of the event of their bin i, and exactly one fit is run whatever
\* the number of signals; for an event of K equal signals the peak of the
\* sum is K times the peak of one signal.
C15_SumOfAllPulses ==
    (Processed /\ ModeC) =>
        /\ Cardinality(CallsOf("Fit")) = 1
        /\ \A b \in DOMAIN FittedSamples
                     \cup UNION {DOMAIN fSignal[j].fSignalData : j \in 1..Len(fSignal)} :
               SampleOf(FittedSamples, b)
                   = Sigma(1..Len(fSignal), [j \in 1..Len(fSignal) |-> GetData(fSignal[j], b)])
        /\ (/\ fSignal # <<>>
            /\ \A j \in 1..Len(fSignal) : fSignal[j].fSignalData = fSignal[1].fSignalData)
               => PeakOf(FittedSamples) = Len(fSignal) * GetMaxPeakValue(fSignal[1])

\* the sum of two equal pulses was fit
C15_Witness ==
    /\ Processed
    /\ ModeC
    /\ Len(fSignal) = 2
    /\ fSignal[1].fSignalData = fSignal[2].fSignalData
    /\ PeakOf(FittedSamples) = 8

\* C16: in Mode C each of the five maps is set with exactly one entry, the
\* result of the fit of the summed pulse (here for an event that holds
\* signals).
C16_OneEntryPerMap ==
    (Processed /\ ModeC /\ fSignal # <<>>) =>
        \A m \in FiveMaps :
            /\ Cardinality(SetsOf(m)) = 1
            /\ Cardinality(DOMAIN Observable(m)) = 1
            /\ \A k \in DOMAIN Observable(m) : FitsOf(k) # {}

\* C17: ProcessEvent evaluates the cut exactly once, after every
\* SetObservableValue call, returns NULL if and only if the cut is true and
\* returns the event it was given otherwise.
C17_CutAfterObservables ==
    Processed =>
        /\ Cardinality(CallsOf("ApplyCut")) = 1
        /\ \A c \in CallsOf("ApplyCut") :
               /\ \A i \in CallsOf("SetObservableValue") : i < c
               /\ returned = "NULL" <=> trace[c].value = TRUE
               /\ trace[c].value = FALSE => returned = "evInput"
        /\ CallsOf("SetObservableValue") # {}

\* the cut vetoed an event of three signals
C17_Witness ==
    /\ Processed
    /\ returned = "NULL"
    /\ Len(fSignal) = 3
    /\ trace[Len(trace)].call = "ApplyCut"

EveryModeObservables ==
    {"FitAmplitude_map", "FitShapingTime_map", "FitStartPosition_map",
     "FitRatioSigmaMaxPeak_map", "FitSigmaMean", "FitSigmaStdDev",
     "FitChiSquareMean", "FitRatioSigmaMaxPeakMean"}

\* C18: every ProcessEvent call, in every mode, sets each of
\* FitAmplitude_map, FitShapingTime_map, FitStartPosition_map,
\* FitRatioSigmaMaxPeak_map, FitSigmaMean, FitSigmaStdDev, FitChiSquareMean
\* and FitRatioSigmaMaxPeakMean exactly once (here for an event that holds
\* signals).
C18_SetInEveryMode ==
    (Processed /\ fSignal # <<>>) => \A name \in EveryModeObservables : Cardinality(SetsOf(name)) = 1

VarianceObservables ==
    {"FitVarianceGauss_map", "FitMaxVarianceGauss", "FitVarianceGaussWMean",
     "FitVarianceGaussWStdDev"}

\* C19: a ProcessEvent call with agetFit false or addAllPulses true sets each
\* of the four variance observables, and a call with agetFit true and
\* addAllPulses false sets none of them.
C19_VarianceWithConvolution ==
    Processed =>
        IF config.fAgetFit = FALSE \/ config.fAddAllPulses = TRUE
        THEN \A name \in VarianceObservables : Cardinality(SetsOf(name)) = 1
        ELSE \A name \in VarianceObservables : SetsOf(name) = {}

\* the sum of all pulses was fit with agetFit set
C19_Witness ==
    /\ Processed
    /\ config.fAgetFit = TRUE
    /\ config.fAddAllPulses = TRUE
    /\ Len(fSignal) >= 1
    /\ SetsOf("FitVarianceGauss_map") # {}

\* C20: every bin index that ProcessEvent reads for a fit, for the sum of
\* all pulses and for a residual sum is inside the samples of the signal,
\* 0 .. number of points - 1 (here for an event that holds signals).
C20_ReadsInsideSignal ==
    (Processed /\ fSignal # <<>>) =>
        \A i \in CallsOf("Fit") \cup CallsOf("GetBinContent") \cup CallsOf("GetData") :
            trace[i].from >= 0 /\ trace[i].to <= trace[i].points

\* the first position after i in trace of a call of this kind and name for
\* the signal of the call at i (0 when there is none)
NextCall(i, call, name) ==
    LET J == {j \in DOMAIN trace : /\ j > i
                                   /\ trace[j].call = call
                                   /\ trace[j].name = name
                                   /\ trace[j].id = trace[i].id}
    IN IF J = {} THEN 0 ELSE CHOOSE j \in J : \A k \in J : j <= k

\* the bin of the maximum peak of the signal that was fit under this ID
PeakBinOf(id) ==
    IF ModeC THEN GetMaxPeakBin(AllPulses(fSignal))
    ELSE GetMaxPeakBin(fSignal[CHOOSE k \in 1..Len(fSignal) : fSignal[k].fSignalID = id])

\* C21: in every mode the residual sum of a fit runs over exactly the bins
\* of the window of the fit, MaxPeakBin - 45 .. MaxPeakBin + 70 - 1, and is
\* divided by the width of that window, 115.
C21_ResidualOverFitWindow ==
    Processed =>
        \A i \in CallsOf("Fit") :
            LET r == NextCall(i, "GetBinContent", "histo")
                d == NextCall(i, "Divide", "sigma")
            IN /\ trace[i].from = PeakBinOf(trace[i].id) - 45
               /\ trace[i].to = PeakBinOf(trace[i].id) + 70
               /\ r # 0
               /\ trace[r].from = trace[i].from
               /\ trace[r].to = trace[i].to
               /\ d # 0
               /\ trace[d].value = Num(115, 1)

\* the signal that was fit under this ID
FitSignalOf(id) ==
    IF ModeC THEN AllPulses(fSignal)
    ELSE fSignal[CHOOSE k \in 1..Len(fSignal) : fSignal[k].fSignalID = id]

\* the data of the signal that was fit under this ID at its peak bin
PeakDataOf(id) == GetData(FitSignalOf(id), PeakBinOf(id))

\* the positions before the fit at i where parameter par of that fit was
\* set (SetParameter) or fixed (FixParameter)
ParameterCalls(i, call, par) ==
    {j \in CallsOf(call) : j < i /\ trace[j].id = trace[i].id /\ trace[j].name = par}

\* the *Fixed option of a parameter and the value the option fixes it to
FixedOptionOf(par) ==
    CASE par = "ShapingTime" -> config.fShapingFixed
      [] par = "StartPosition" -> config.fStartPositionFixed
      [] par = "VarianceGauss" -> config.fVarianceFixed
      [] par = "Amplitude" -> config.fAmplitudeFixed

FixedValueOf(par, id) ==
    CASE par = "ShapingTime" -> config.fShapingFixed
      [] par = "StartPosition" -> PeakBinOf(id) - config.fStartPositionFixed
      [] par = "VarianceGauss" -> config.fVarianceFixed
      [] par = "Amplitude" -> config.fAmplitudeFixed * PeakDataOf(id)

\* the map a parameter of the fit is stored in
MapOf(par) ==
    CASE par = "ShapingTime" -> "FitShapingTime_map"
      [] par = "StartPosition" -> "FitStartPosition_map"
      [] par = "VarianceGauss" -> "FitVarianceGauss_map"
      [] par = "Amplitude" -> "FitAmplitude_map"

\* the parameters of the function of the fit at i
ParametersOf(i) ==
    IF trace[i].name = "fit" THEN {"ShapingTime", "StartPosition", "VarianceGauss", "Amplitude"}
    ELSE {"ShapingTime", "StartPosition", "Amplitude"}

\* C22: for every fit in every mode, a parameter of the function is fixed
\* if and only if its *Fixed option is not 0: ShapingTime to shapingFixed,
\* VarianceGauss to varianceFixed, StartPosition to peak bin minus
\* startPositionFixed, Amplitude to amplitudeFixed times the data at the
\* peak bin; the fixed value is given after any initial value, and it is
\* the value of the parameter after the fit.
C22_FixedIffConfigured ==
    Processed =>
        \A i \in CallsOf("Fit") :
            /\ \A par \in ParametersOf(i) :
                   /\ ParameterCalls(i, "FixParameter", par) # {} <=> FixedOptionOf(par) # 0
                   /\ \A j \in ParameterCalls(i, "FixParameter", par) :
                          /\ trace[j].value = Num(FixedValueOf(par, trace[i].id), 1)
                          /\ \A k \in ParameterCalls(i, "SetParameter", par) : k < j
                          /\ Observable(MapOf(par))[trace[i].id] = trace[j].value
            /\ \A j \in CallsOf("FixParameter") : trace[j].name \in ParametersOf(i)

\* two fits with the four parameters fixed, and initial values configured
C22_Witness ==
    /\ Processed
    /\ config.fShapingFixed # 0
    /\ config.fAmplitudeFixed # 0
    /\ config.fAmplitudeInitialValue # 0
    /\ Cardinality(CallsOf("Fit")) = 2
    /\ Cardinality(CallsOf("FixParameter")) = 8
    /\ \E i \in CallsOf("Fit") : Observable("FitAmplitude_map")[trace[i].id] = Num(40, 1)

\* C23: with agetFit false the Amplitude parameter of every fit is fixed to
\* 10 times the data of the signal at its peak bin, and the entry of every
\* fitted signal in FitAmplitude_map is 10 times that peak value (here for
\* the fit of all signals of an event that holds signals).
C23_AmplitudeFixedToTenTimes ==
    (Processed /\ config.fAgetFit = FALSE /\ ModeA /\ fSignal # <<>>) =>
        \A i \in CallsOf("Fit") :
            /\ \E j \in ParameterCalls(i, "FixParameter", "Amplitude") :
                   trace[j].value = Num(10 * PeakDataOf(trace[i].id), 1)
            /\ Observable("FitAmplitude_map")[trace[i].id]
                   = Num(10 * PeakDataOf(trace[i].id), 1)

\* the largest of the values of the map m (with entries)
LargestOf(m) ==
    m[CHOOSE k \in DOMAIN m : \A j \in DOMAIN m : ~VGreater(m[j], m[k])]

\* C24: with the convolved function fit signal by signal, FitMaxVarianceGauss
\* is the largest of the values stored in FitVarianceGauss_map for the
\* signals of the event, also when every stored value is negative or the
\* -1 of a signal that was not fit.
C24_MaxOfStoredVariances ==
    (Processed /\ config.fAddAllPulses = FALSE /\ config.fAgetFit = FALSE
               /\ fSignal # <<>>) =>
        Observable("FitMaxVarianceGauss") = LargestOf(Observable("FitVarianceGauss_map"))

\* the sum of f over the positions S, in Double_t arithmetic
RECURSIVE VSum(_, _)
VSum(S, f) ==
    IF S = {} THEN Num(0, 1)
    ELSE LET x == CHOOSE y \in S : TRUE
         IN VAdd(f[x], VSum(S \ {x}, f))

\* the convolved function was fit signal by signal (Modes A and B)
PerSignalConvolution == config.fAddAllPulses = FALSE /\ config.fAgetFit = FALSE

\* the VarianceGauss of the fit at position i of trace and its uncertainty
VarianceOf(i) == Observable("FitVarianceGauss_map")[trace[i].id]

ErrorOf(i) == trace[NextCall(i, "GetParError", "VarianceGauss")].value

\* C26: in Modes A and B FitVarianceGaussWMean is sum(v / e) / sum(1 / e)
\* over exactly the signals that were fit, v the VarianceGauss of a fit and
\* e its uncertainty; a signal that was not fit adds nothing, and the value
\* is set after the last fit.
C26_WeightedMean ==
    (Processed /\ PerSignalConvolution) =>
        LET F == CallsOf("Fit")
        IN /\ Observable("FitVarianceGaussWMean")
                  = VDiv(VSum(F, [i \in F |-> VDiv(VarianceOf(i), ErrorOf(i))]),
                         VSum(F, [i \in F |-> VDiv(Num(1, 1), ErrorOf(i))]))
           /\ \A i \in F : \A j \in SetsOf("FitVarianceGaussWMean") : i < j

\* two of three signals were fit, with different uncertainties: the
\* weighted mean of 2 and 6 with the weights 1 and 1/3 is 3
C26_Witness ==
    /\ Processed
    /\ ModeB
    /\ Len(fSignal) = 3
    /\ Cardinality(CallsOf("Fit")) = 2
    /\ \E i, j \in CallsOf("Fit") : ErrorOf(i) # ErrorOf(j)
    /\ Observable("FitVarianceGaussWMean") = Num(3, 1)

\* the positions in trace of the divisions that make an observable of the
\* event out of a sum over its signals
EventDivisions == {i \in CallsOf("Divide") : trace[i].name # "sigma"}

\* C27: every division by a count or by a sum of weights that makes an
\* observable of the event has a divisor that is not 0: the number of
\* signals, goodSig and VGweights, for every event.
C27_DivisorsNotZero ==
    Processed => \A i \in EventDivisions : trace[i].value # Num(0, 1)

\* Sigma of the fit at position i of trace: the stored ratio times the
\* content of the bin it was divided by
SigmaOf(i) ==
    VMul(Observable("FitRatioSigmaMaxPeak_map")[trace[i].id],
         GetBinContent(FitSignalOf(trace[i].id), PeakBinOf(trace[i].id) + 1))

\* C29: in Mode B FitSigmaStdDev is the population standard deviation of
\* Sigma over exactly the signals that were fit: every fit adds its squared
\* distance from FitSigmaMean, a fit whose Sigma is 0 too, and a signal that
\* was not fit adds nothing (here for an event with a fit).
C29_StdDevOverFittedSignals ==
    (Processed /\ ModeB /\ CallsOf("Fit") # {}) =>
        LET F == CallsOf("Fit")
            mean == Observable("FitSigmaMean")
        IN Observable("FitSigmaStdDev")
               = VSqrt(VDiv(VSum(F, [i \in F |->
                                       VMul(VSub(SigmaOf(i), mean), VSub(SigmaOf(i), mean))]),
                            Num(Cardinality(F), 1)))

\* the IDs, the numbers of points and the samples of the signals v, in order
MembershipOf(v) ==
    [k \in 1..Len(v) |-> <<v[k].fSignalID, v[k].nPoints, v[k].fSignalData>>]

\* C28: a ProcessEvent call leaves the event with the same number of
\* signals, the same IDs in the same order and the same samples (the sum of
\* all pulses is not added to it), and what it returns is NULL or the event
\* it was given.
C28_EventMembershipKept ==
    [][ret'.op = "ProcessEvent" =>
           /\ MembershipOf(fSignal') = MembershipOf(fSignal)
           /\ returned' \in {"NULL", "evInput"}]_vars

\* the sum of three signals was fit and the event was returned with its
\* three signals
C28_Witness ==
    /\ Processed
    /\ ModeC
    /\ returned = "evInput"
    /\ Cardinality(CallsOf("Fit")) = 1
    /\ IDsOf(fSignal) \in {<<1, 2, 3>>, <<3, 2, 1>>}

----------------------------------------------------------------------------
(* Properties of ProcessEvent calls that run at the same time *)

\* C25: two workers that process different events at the same time share
\* no state through ProcessEvent: in every interleaving each worker ends
\* its call, has fit the signals of its own event, has divided by the
\* number of signals of its own event and returns NULL or its own event, as
\* it does when the calls run one after the other.
C25_WorkersShareNoState ==
    \A w \in Workers :
        /\ worker[w].pc # "crashed"
        /\ worker[w].pc = "done" =>
               /\ worker[w].fits = SignalIDsOf(EventOf[w])
               /\ worker[w].n = Len(SignalIDsOf(EventOf[w]))
               /\ worker[w].out \in {"NULL", EventOf[w]}

----------------------------------------------------------------------------
(* Properties of GetLowAverageWidth *)

\* the sum of the k smallest values of w over the positions S
RECURSIVE SumOfSmallest(_, _, _)
SumOfSmallest(S, w, k) ==
    IF k = 0 \/ S = {} THEN 0
    ELSE LET i == CHOOSE x \in S : \A y \in S : w[x] <= w[y]
         IN w[i] + SumOfSmallest(S \ {i}, w, k - 1)

\* C30: GetLowAverageWidth(nSignals, a) returns 0 when no signal has a
\* maximum peak above a, and else the arithmetic mean of the min(nSignals, q)
\* smallest widths of the q signals that have one, also when q < nSignals.
C30_LowAverageWidth ==
    ret.op = "GetLowAverageWidth" =>
        LET Q == Qualifying(ret.arg[2])
            k == IF Cardinality(Q) < ret.arg[1] THEN Cardinality(Q) ELSE ret.arg[1]
        IN IF Q = {} THEN IsZero(ret.val)
           ELSE /\ ret.val.kind = "num"
                /\ ret.val.den > 0
                /\ ret.val.num * k = SumOfSmallest(Q, WidthOf, k) * ret.val.den

====
